---- MODULE Spec2Model ----
(***************************************************************************)
(* Model of the group-meeting-scheduler core: the Calendar Processor       *)
(* (conflict detection, busy-period merging) and the Meeting Scheduler     *)
(* (candidate slots, conflict test, scoring, ranking).                     *)
(*                                                                         *)
(* Instants are minutes since an epoch midnight (a JavaScript Date holds   *)
(* milliseconds, getTime(t) = t * MsPerMinute).  The process runs in a     *)
(* zone without clock changes, so local midnight is a multiple of 1440.    *)
(***************************************************************************)
EXTENDS Integers, Sequences, FiniteSets, TLC

\* ------------------------------------------------------------------ bounds
MaxTime == 4          \* event instants of the processor runs are 0..MaxTime
MaxEvents == 3        \* events of the first participant of a detectConflicts call
MaxParticipants == 2  \* participants of one scheduleOptimalMeeting call
MaxCount == 3         \* COUNT of a recurrence rule, and explicit maxOccurrences

\* -------------------------------------------------------- program constants
MsPerMinute == 60000

\* ---------------------------------------------------------------- helpers
Max(a, b) == IF a >= b THEN a ELSE b
Min(a, b) == IF a <= b THEN a ELSE b
Range(s) == {s[i] : i \in 1..Len(s)}

\* Date.getTime(): milliseconds of an instant
getTime(t) == t * MsPerMinute

\* new Date(ms) for a whole number of minutes
newDate(ms) == ms \div MsPerMinute

RECURSIVE SeqsUpTo(_, _)
\* all sequences over S of length <= n
SeqsUpTo(S, n) ==
  IF n = 0 THEN {<<>>}
  ELSE LET shorter == SeqsUpTo(S, n - 1)
       IN  shorter \cup {Append(s, x) : s \in {t \in shorter : Len(t) = n - 1}, x \in S}

\* ------------------------------------------------------- calendar model
\* CalendarEvent.status; the code only ever tests status against "cancelled",
\* so "tentative" takes the branches of "confirmed" and is not enumerated
Statuses == {"confirmed", "cancelled"}

\* start and end of an event: start < end is the Event invariant
Spans == {sp \in [start : 0..MaxTime, end : 0..MaxTime] : sp.start < sp.end}

\* a list of spans as events of which at most the one at cancelledAt is
\* cancelled (cancelledAt = 0: none)
AsEvents(spans, cancelledAt) ==
  [i \in 1..Len(spans) |->
      [start |-> spans[i].start, end |-> spans[i].end,
       status |-> IF i = cancelledAt THEN "cancelled" ELSE "confirmed"]]

\* ids are unique within one calendar: the position in the input list
WithIds(shapes) ==
  [i \in 1..Len(shapes) |->
      [id |-> i, start |-> shapes[i].start, end |-> shapes[i].end,
       status |-> shapes[i].status]]

\* Array.prototype.sort with comparator a.start - b.start (stable)
RECURSIVE InsertByStart(_, _)
InsertByStart(sorted, ev) ==
  IF sorted = <<>> THEN <<ev>>
  ELSE IF getTime(ev.start) - getTime(sorted[Len(sorted)].start) >= 0
       THEN Append(sorted, ev)
       ELSE Append(InsertByStart(SubSeq(sorted, 1, Len(sorted) - 1), ev),
                   sorted[Len(sorted)])

RECURSIVE SortByStart(_)
SortByStart(events) ==
  IF events = <<>> THEN <<>>
  ELSE InsertByStart(SortByStart(SubSeq(events, 1, Len(events) - 1)),
                     events[Len(events)])

\* Array.prototype.filter(event => event.status !== "cancelled")
RECURSIVE FilterNotCancelled(_)
FilterNotCancelled(events) ==
  IF events = <<>> THEN <<>>
  ELSE LET rest == FilterNotCancelled(Tail(events))
       IN  IF Head(events).status # "cancelled" THEN <<Head(events)>> \o rest
           ELSE rest

\* variant of ConflictsFrom: the break and the overlap test both admit equality
RECURSIVE ConflictsFrom_Inclusive(_, _, _, _)
ConflictsFrom_Inclusive(pid, events, i, j) ==
  IF j > Len(events) THEN <<>>
  ELSE
    LET event1 == events[i]
        event2 == events[j]
    IN  IF event2.start > event1.end THEN <<>>
        ELSE
          LET overlapStart == newDate(Max(getTime(event1.start), getTime(event2.start)))
              overlapEnd   == newDate(Min(getTime(event1.end), getTime(event2.end)))
              found ==
                IF overlapStart <= overlapEnd
                THEN <<[participantId |-> pid, event1 |-> event1, event2 |-> event2,
                        overlapStart |-> overlapStart, overlapEnd |-> overlapEnd,
                        overlapDuration |->
                          (getTime(overlapEnd) - getTime(overlapStart)) \div (1000 * 60)]>>
                ELSE <<>>
          IN  found \o ConflictsFrom_Inclusive(pid, events, i, j + 1)

\* CalendarProcessor.detectParticipantConflicts: the inner loop over j for a
\* fixed i, with its early break
RECURSIVE ConflictsFrom(_, _, _, _)
ConflictsFrom(pid, events, i, j) ==
  IF j > Len(events) THEN <<>>
  ELSE
    LET event1 == events[i]
        event2 == events[j]
    IN  IF event2.start >= event1.end THEN <<>>   \* break
        ELSE
          LET overlapStart == newDate(Max(getTime(event1.start), getTime(event2.start)))
              overlapEnd   == newDate(Min(getTime(event1.end), getTime(event2.end)))
              found ==
                IF overlapStart < overlapEnd
                THEN <<[participantId |-> pid, event1 |-> event1, event2 |-> event2,
                        overlapStart |-> overlapStart, overlapEnd |-> overlapEnd,
                        overlapDuration |->
                          (getTime(overlapEnd) - getTime(overlapStart)) \div (1000 * 60)]>>
                ELSE <<>>
          IN  found \o ConflictsFrom(pid, events, i, j + 1)

RECURSIVE ConflictsOuter(_, _, _)
ConflictsOuter(pid, events, i) ==
  IF i > Len(events) THEN <<>>
  ELSE ConflictsFrom(pid, events, i, i + 1) \o ConflictsOuter(pid, events, i + 1)

\* variant of detectParticipantConflicts: the events are not sorted first
detectParticipantConflicts_Unsorted(calendar) ==
  ConflictsOuter(calendar.participantId, calendar.events, 1)

detectParticipantConflicts(calendar) ==
  ConflictsOuter(calendar.participantId, SortByStart(calendar.events), 1)

\* variant of MergeFrom: an event that only touches the period is not merged
RECURSIVE MergeFrom_NoTouch(_, _, _, _, _)
MergeFrom_NoTouch(pid, events, i, closed, currentPeriod) ==
  IF i > Len(events) THEN Append(closed, currentPeriod)
  ELSE
    LET event == events[i]
    IN  IF event.start < currentPeriod.end
        THEN MergeFrom_NoTouch(pid, events, i + 1, closed,
               [currentPeriod EXCEPT
                  !.end = newDate(Max(getTime(currentPeriod.end), getTime(event.end))),
                  !.eventIds = Append(currentPeriod.eventIds, event.id)])
        ELSE MergeFrom_NoTouch(pid, events, i + 1, Append(closed, currentPeriod),
               [participantId |-> pid, start |-> event.start, end |-> event.end,
                eventIds |-> <<event.id>>])

\* variant of MergeFrom: the period's end becomes the merged event's end
RECURSIVE MergeFrom_LastEnd(_, _, _, _, _)
MergeFrom_LastEnd(pid, events, i, closed, currentPeriod) ==
  IF i > Len(events) THEN Append(closed, currentPeriod)
  ELSE
    LET event == events[i]
    IN  IF event.start <= currentPeriod.end
        THEN MergeFrom_LastEnd(pid, events, i + 1, closed,
               [currentPeriod EXCEPT
                  !.end = event.end,
                  !.eventIds = Append(currentPeriod.eventIds, event.id)])
        ELSE MergeFrom_LastEnd(pid, events, i + 1, Append(closed, currentPeriod),
               [participantId |-> pid, start |-> event.start, end |-> event.end,
                eventIds |-> <<event.id>>])

\* CalendarProcessor.generateBusyPeriods: the merge loop from index i on, with
\* the periods closed so far and the period being extended
RECURSIVE MergeFrom(_, _, _, _, _)
MergeFrom(pid, events, i, closed, currentPeriod) ==
  IF i > Len(events) THEN Append(closed, currentPeriod)
  ELSE
    LET event == events[i]
    IN  IF event.start <= currentPeriod.end
        THEN MergeFrom(pid, events, i + 1, closed,
               [currentPeriod EXCEPT
                  !.end = newDate(Max(getTime(currentPeriod.end), getTime(event.end))),
                  !.eventIds = Append(currentPeriod.eventIds, event.id)])
        ELSE MergeFrom(pid, events, i + 1, Append(closed, currentPeriod),
               [participantId |-> pid, start |-> event.start, end |-> event.end,
                eventIds |-> <<event.id>>])

generateBusyPeriods(calendar) ==
  LET events == SortByStart(FilterNotCancelled(calendar.events))
  IN  IF Len(events) = 0 THEN <<>>
      ELSE MergeFrom(calendar.participantId, events, 2, <<>>,
             [participantId |-> calendar.participantId, start |-> events[1].start,
              end |-> events[1].end, eventIds |-> <<events[1].id>>])

\* CalendarProcessor.expandRecurringEvents for events that carry no recurrence
\* rule: each one is pushed unchanged into a fresh array
expandRecurringEvents(calendar) ==
  [calendar EXCEPT !.events = [i \in 1..Len(calendar.events) |-> calendar.events[i]]]

RECURSIVE DetectLoop(_, _, _)
\* CalendarProcessor.detectConflicts: the loop over the expanded calendars;
\* detectParticipantConflicts sorts calendar.events in place, so
\* generateBusyPeriods receives the sorted array
DetectLoop(expandedCalendars, k, acc) ==
  IF k > Len(expandedCalendars) THEN acc
  ELSE
    LET calendar == expandedCalendars[k]
        participantConflicts == detectParticipantConflicts(calendar)
        sortedCalendar == [calendar EXCEPT !.events = SortByStart(calendar.events)]
        participantBusyPeriods == generateBusyPeriods(sortedCalendar)
    IN  DetectLoop(expandedCalendars, k + 1,
          [conflicts |-> acc.conflicts \o participantConflicts,
           busyPeriods |-> acc.busyPeriods \o participantBusyPeriods])

detectConflicts(cals) ==
  LET expandedCalendars == [k \in 1..Len(cals) |-> expandRecurringEvents(cals[k])]
      r == DetectLoop(expandedCalendars, 1, [conflicts |-> <<>>, busyPeriods |-> <<>>])
  IN  [hasConflicts |-> Len(r.conflicts) > 0,
       conflicts |-> r.conflicts,
       busyPeriods |-> r.busyPeriods]

\* =================================================================
\* Meeting Scheduler
\* =================================================================

\* ------------------------------------------------ JavaScript numbers
\* A number is an exact fraction n/d (d > 0, lowest terms), +Infinity or
\* -Infinity (kind "inf", n = 1 or -1) or NaN.  Rounding of doubles is not
\* modelled.
RECURSIVE Gcd(_, _)
Gcd(a, b) == IF b = 0 THEN a ELSE Gcd(b, a % b)
Abs(x) == IF x < 0 THEN 0 - x ELSE x

NaN == [kind |-> "nan", n |-> 0, d |-> 1]
Inf(sign) == [kind |-> "inf", n |-> sign, d |-> 1]
Frac(n, d) ==
  LET g == Gcd(Abs(n), Abs(d))
      sgn == IF d < 0 THEN -1 ELSE 1
  IN  [kind |-> "fin", n |-> (sgn * n) \div g, d |-> (sgn * d) \div g]
Num(i) == Frac(i, 1)
Sign(x) == IF x.n > 0 THEN 1 ELSE IF x.n < 0 THEN -1 ELSE 0

\* a + b
NumAdd(a, b) ==
  IF a.kind = "nan" \/ b.kind = "nan" THEN NaN
  ELSE IF a.kind = "inf" /\ b.kind = "inf" THEN (IF a.n = b.n THEN a ELSE NaN)
  ELSE IF a.kind = "inf" THEN a
  ELSE IF b.kind = "inf" THEN b
  ELSE Frac(a.n * b.d + b.n * a.d, a.d * b.d)

\* a * b
NumMul(a, b) ==
  IF a.kind = "nan" \/ b.kind = "nan" THEN NaN
  ELSE IF a.kind = "inf" \/ b.kind = "inf"
       THEN (IF Sign(a) * Sign(b) = 0 THEN NaN ELSE Inf(Sign(a) * Sign(b)))
  ELSE Frac(a.n * b.n, a.d * b.d)

NumNeg(a) == IF a.kind = "nan" THEN NaN ELSE [a EXCEPT !.n = 0 - a.n]
NumSub(a, b) == NumAdd(a, NumNeg(b))

\* a / b: division by zero gives an infinity, 0 / 0 gives NaN
NumDiv(a, b) ==
  IF a.kind = "nan" \/ b.kind = "nan" THEN NaN
  ELSE IF a.kind = "inf" /\ b.kind = "inf" THEN NaN
  ELSE IF a.kind = "inf" THEN Inf(IF Sign(b) < 0 THEN 0 - a.n ELSE a.n)
  ELSE IF b.kind = "inf" THEN Num(0)
  ELSE IF b.n = 0 THEN (IF a.n = 0 THEN NaN ELSE Inf(Sign(a)))
  ELSE Frac(a.n * b.d, a.d * b.n)

\* a < b on numbers that are not NaN
NumLess(a, b) ==
  IF a.kind = "inf" THEN a.n < 0 /\ ~(b.kind = "inf" /\ b.n < 0)
  ELSE IF b.kind = "inf" THEN b.n > 0
  ELSE a.n * b.d < b.n * a.d

\* Math.abs, Math.max, Math.min: NaN if an argument is NaN
NumAbs(a) == IF a.kind = "nan" THEN NaN ELSE [a EXCEPT !.n = Abs(a.n)]
MathMax(a, b) ==
  IF a.kind = "nan" \/ b.kind = "nan" THEN NaN
  ELSE IF NumLess(a, b) THEN b ELSE a
MathMin(a, b) ==
  IF a.kind = "nan" \/ b.kind = "nan" THEN NaN
  ELSE IF NumLess(b, a) THEN b ELSE a

\* --------------------------------------------------- time-of-day strings
\* a string is the sequence of its characters
Digits == {"0", "1", "2", "3", "4", "5", "6", "7", "8", "9"}
DigitValue(c) ==
  CASE c = "0" -> 0 [] c = "1" -> 1 [] c = "2" -> 2 [] c = "3" -> 3 [] c = "4" -> 4
    [] c = "5" -> 5 [] c = "6" -> 6 [] c = "7" -> 7 [] c = "8" -> 8 [] c = "9" -> 9

\* /^([0-1]?[0-9]|2[0-3]):[0-5][0-9]$/.test(str)
timeRegexTest(str) ==
  /\ Len(str) \in {4, 5}
  /\ str[Len(str) - 2] = ":"
  /\ str[Len(str) - 1] \in {"0", "1", "2", "3", "4", "5"}
  /\ str[Len(str)] \in Digits
  /\ LET hours == SubSeq(str, 1, Len(str) - 3)
     IN  \/ Len(hours) = 1 /\ hours[1] \in Digits
         \/ Len(hours) = 2 /\ hours[1] \in {"0", "1"} /\ hours[2] \in Digits
         \/ Len(hours) = 2 /\ hours[1] = "2" /\ hours[2] \in {"0", "1", "2", "3"}

\* Number(part) for a part made of decimal digits
RECURSIVE NumberOf(_)
NumberOf(part) ==
  IF part = <<>> THEN 0
  ELSE 10 * NumberOf(SubSeq(part, 1, Len(part) - 1)) + DigitValue(part[Len(part)])

\* str.split(":").map(Number) of a string that passed timeRegexTest:
\* <<hour, minute>>
splitHourMinute(str) ==
  LET colon == CHOOSE i \in 1..Len(str) : str[i] = ":"
  IN  <<NumberOf(SubSeq(str, 1, colon - 1)), NumberOf(SubSeq(str, colon + 1, Len(str)))>>

\* ------------------------------------------------------------ date-fns
MinutesPerDay == 1440
\* startOfDay / endOfDay in the process zone (endOfDay to the minute: 23:59)
startOfDay(t) == t - (t % MinutesPerDay)
endOfDay(t) == startOfDay(t) + (MinutesPerDay - 1)
addMinutes(t, m) == t + m
\* Date.setHours(h, m, 0, 0) on a date
setHours(t, h, m) == startOfDay(t) + h * 60 + m
\* Date.getHours / getMinutes
getHours(t) == (t % MinutesPerDay) \div 60
getMinutes(t) == t % 60
\* Date.getDay: 0 is Sunday; the epoch day of the model is a Friday
EpochWeekday == 5
getDay(t) == (EpochWeekday + (t \div MinutesPerDay)) % 7
isWeekend(t) == getDay(t) \in {0, 6}

\* ------------------------------------------------------ MeetingScheduler
\* variant of validateInputs: the search range is checked before the duration
validateInputs_RangeFirst(parts, prefs, range) ==
  IF Len(parts) = 0 THEN "NO_PARTICIPANTS"
  ELSE IF range.start >= range.end THEN "INVALID_RANGE"
  ELSE IF prefs.duration <= 0 THEN "INVALID_DURATION"
  ELSE IF ~timeRegexTest(prefs.timeRangeStart) \/ ~timeRegexTest(prefs.timeRangeEnd)
       THEN "INVALID_TIME_FORMAT"
  ELSE "ok"

\* MeetingScheduler.validateInputs: the code of the SchedulingError it throws,
\* "ok" when it returns
validateInputs(parts, prefs, range) ==
  IF Len(parts) = 0 THEN "NO_PARTICIPANTS"
  ELSE IF prefs.duration <= 0 THEN "INVALID_DURATION"
  ELSE IF range.start >= range.end THEN "INVALID_RANGE"
  ELSE IF ~timeRegexTest(prefs.timeRangeStart) \/ ~timeRegexTest(prefs.timeRangeEnd)
       THEN "INVALID_TIME_FORMAT"
  ELSE "ok"

\* Map<string, BusyPeriod[]> as its entries in insertion order
MapHas(map, key) == \E i \in 1..Len(map) : map[i].key = key
\* Map.prototype.set: a present key keeps its place and gets the new value
MapSet(map, key, value) ==
  IF MapHas(map, key)
  THEN [i \in 1..Len(map) |->
          IF map[i].key = key THEN [key |-> key, value |-> value] ELSE map[i]]
  ELSE Append(map, [key |-> key, value |-> value])

RECURSIVE BusyMapFrom(_, _, _, _)
\* MeetingScheduler.getAllBusyPeriods: the loop over the participants, where
\* returned[k] is what getBusyPeriods resolved to for the k-th participant
BusyMapFrom(parts, returned, k, map) ==
  IF k > Len(parts) THEN map
  ELSE BusyMapFrom(parts, returned, k + 1,
                   MapSet(map, parts[k].participantId, returned[k]))

getAllBusyPeriods(parts, returned) == BusyMapFrom(parts, returned, 1, <<>>)

\* MeetingScheduler.periodsOverlap
periodsOverlap(period1, period2) ==
  period1.start < period2.end /\ period2.start < period1.end

\* MeetingScheduler.findSlotConflicts
RECURSIVE findSlotConflictsFrom(_, _, _)
findSlotConflictsFrom(slot, map, i) ==
  IF i > Len(map) THEN <<>>
  ELSE
    LET periods == map[i].value
        hasConflict ==
          \E n \in 1..Len(periods) :
            periodsOverlap(slot, [start |-> periods[n].start, end |-> periods[n].end])
    IN  (IF hasConflict THEN <<map[i].key>> ELSE <<>>)
          \o findSlotConflictsFrom(slot, map, i + 1)

findSlotConflicts(slot, map) == findSlotConflictsFrom(slot, map, 1)

\* variant of DaySlotsFrom: a slot that ends exactly at dayEnd is left out
RECURSIVE DaySlotsFrom_Strict(_, _, _, _, _)
DaySlotsFrom_Strict(currentSlotStart, dayEnd, prefs, slotDuration, map) ==
  IF ~(addMinutes(currentSlotStart, slotDuration) < dayEnd) THEN <<>>
  ELSE
    LET slotEnd == addMinutes(currentSlotStart, prefs.duration)
        conflicts == findSlotConflicts([start |-> currentSlotStart, end |-> slotEnd], map)
        slot == [start |-> currentSlotStart, end |-> slotEnd, score |-> Num(0),
                 conflicts |-> conflicts, timezoneDisplay |-> <<>>]
    IN  <<slot>> \o DaySlotsFrom_Strict(addMinutes(currentSlotStart, 15), dayEnd, prefs,
                                        slotDuration, map)

\* MeetingScheduler.generateDaySlots: the while loop from currentSlotStart on
RECURSIVE DaySlotsFrom(_, _, _, _, _)
DaySlotsFrom(currentSlotStart, dayEnd, prefs, slotDuration, map) ==
  IF ~(addMinutes(currentSlotStart, slotDuration) <= dayEnd) THEN <<>>
  ELSE
    LET slotEnd == addMinutes(currentSlotStart, prefs.duration)
        conflicts == findSlotConflicts([start |-> currentSlotStart, end |-> slotEnd], map)
        slot == [start |-> currentSlotStart, end |-> slotEnd, score |-> Num(0),
                 conflicts |-> conflicts, timezoneDisplay |-> <<>>]
    IN  <<slot>> \o DaySlotsFrom(addMinutes(currentSlotStart, 15), dayEnd, prefs,
                                 slotDuration, map)

generateDaySlots(date, prefs, slotDuration, map) ==
  LET startHM == splitHourMinute(prefs.timeRangeStart)
      endHM == splitHourMinute(prefs.timeRangeEnd)
      dayStart == setHours(date, startHM[1], startHM[2])
      dayEnd == setHours(date, endHM[1], endHM[2])
  IN  DaySlotsFrom(dayStart, dayEnd, prefs, slotDuration, map)

\* variant of daySkipped: an excluded date is compared as an instant
daySkipped_InstantEqual(currentDate, prefs) ==
  \/ prefs.excludeWeekends /\ isWeekend(currentDate)
  \/ \E i \in 1..Len(prefs.excludedDates) : prefs.excludedDates[i] = currentDate

\* a day of the walk is skipped: weekend, or equal to an excluded date
daySkipped(currentDate, prefs) ==
  \/ prefs.excludeWeekends /\ isWeekend(currentDate)
  \/ \E i \in 1..Len(prefs.excludedDates) :
       startOfDay(prefs.excludedDates[i]) = startOfDay(currentDate)

\* MeetingScheduler.findCandidateTimeSlots: the while loop from currentDate on
RECURSIVE CandidateSlotsFrom(_, _, _, _, _)
CandidateSlotsFrom(currentDate, endDate, prefs, slotDuration, map) ==
  IF ~(currentDate <= endDate) THEN <<>>
  ELSE
    (IF daySkipped(currentDate, prefs) THEN <<>>
     ELSE generateDaySlots(currentDate, prefs, slotDuration, map))
      \o CandidateSlotsFrom(addMinutes(currentDate, 24 * 60), endDate, prefs,
                            slotDuration, map)

findCandidateTimeSlots(range, prefs, map) ==
  LET slotDuration == prefs.duration + prefs.bufferTime
  IN  CandidateSlotsFrom(startOfDay(range.start), endOfDay(range.end), prefs,
                         slotDuration, map)

\* MeetingScheduler.calculateTimePreferenceBonus
calculateTimePreferenceBonus(slot, prefs) ==
  LET hour == getHours(slot.start)
      minute == getMinutes(slot.start)
      timeInMinutes == hour * 60 + minute
      startHM == splitHourMinute(prefs.timeRangeStart)
      endHM == splitHourMinute(prefs.timeRangeEnd)
      businessStart == startHM[1] * 60 + startHM[2]
      businessEnd == endHM[1] * 60 + endHM[2]
      businessMiddle == NumDiv(Num(businessStart + businessEnd), Num(2))
      distanceFromMiddle == NumAbs(NumSub(Num(timeInMinutes), businessMiddle))
      maxDistance == NumDiv(Num(businessEnd - businessStart), Num(2))
  IN  MathMax(Num(0),
              NumMul(Num(10), NumSub(Num(1), NumDiv(distanceFromMiddle, maxDistance))))

\* MeetingScheduler.calculateTimezoneBonus
calculateTimezoneBonus(slot, prefs, parts) ==
  IF Len(prefs.preferredTimezones) = 0 THEN Num(0)
  ELSE
    LET participantsInPreferredTz ==
          Cardinality({k \in 1..Len(parts) :
                         parts[k].timezone \in Range(prefs.preferredTimezones)})
    IN  NumMul(NumDiv(Num(participantsInPreferredTz), Num(Len(parts))), Num(5))

\* offset in minutes of a zone from UTC (formatInTimeZone), winter time
ZoneOffset(zone) == IF zone = "America/New_York" THEN -300 ELSE 0

\* MeetingScheduler.generateTimezoneDisplay: for each distinct participant
\* zone, the slot's start and end as wall-clock minutes in that zone
generateTimezoneDisplay(slot, parts) ==
  LET timezones == {parts[k].timezone : k \in 1..Len(parts)}
  IN  [tz \in timezones |->
         <<slot.start + ZoneOffset(tz), slot.end + ZoneOffset(tz)>>]

\* variant of scoreSlot: 50 points per conflict, not per share of participants
scoreSlot_PenaltyPerConflict(slot, prefs, parts) ==
  LET conflictPenalty == NumMul(Num(Len(slot.conflicts)), Num(50))
      timeBonus == calculateTimePreferenceBonus(slot, prefs)
      timezoneBonus == calculateTimezoneBonus(slot, prefs, parts)
      score == NumAdd(NumAdd(NumSub(Num(100), conflictPenalty), timeBonus), timezoneBonus)
  IN  [slot EXCEPT
         !.timezoneDisplay = generateTimezoneDisplay(slot, parts),
         !.score = MathMax(Num(0), MathMin(Num(100), score))]

\* variant of scoreSlot: the score is not clamped
scoreSlot_NoClamp(slot, prefs, parts) ==
  LET conflictPenalty ==
        NumMul(NumDiv(Num(Len(slot.conflicts)), Num(Len(parts))), Num(50))
      timeBonus == calculateTimePreferenceBonus(slot, prefs)
      timezoneBonus == calculateTimezoneBonus(slot, prefs, parts)
      score == NumAdd(NumAdd(NumSub(Num(100), conflictPenalty), timeBonus), timezoneBonus)
  IN  [slot EXCEPT
         !.timezoneDisplay = generateTimezoneDisplay(slot, parts),
         !.score = score]

\* variant of scoreSlot: the penalty grows with the participants that are free
scoreSlot_PenaltyForFree(slot, prefs, parts) ==
  LET conflictPenalty ==
        NumMul(NumDiv(Num(Len(parts) - Len(slot.conflicts)), Num(Len(parts))), Num(50))
      timeBonus == calculateTimePreferenceBonus(slot, prefs)
      timezoneBonus == calculateTimezoneBonus(slot, prefs, parts)
      score == NumAdd(NumAdd(NumSub(Num(100), conflictPenalty), timeBonus), timezoneBonus)
  IN  [slot EXCEPT
         !.timezoneDisplay = generateTimezoneDisplay(slot, parts),
         !.score = MathMax(Num(0), MathMin(Num(100), score))]

\* MeetingScheduler.scoreTimeSlots: the callback of slots.map
scoreSlot(slot, prefs, parts) ==
  LET conflictPenalty ==
        NumMul(NumDiv(Num(Len(slot.conflicts)), Num(Len(parts))), Num(50))
      timeBonus == calculateTimePreferenceBonus(slot, prefs)
      timezoneBonus == calculateTimezoneBonus(slot, prefs, parts)
      score == NumAdd(NumAdd(NumSub(Num(100), conflictPenalty), timeBonus), timezoneBonus)
  IN  [slot EXCEPT
         !.timezoneDisplay = generateTimezoneDisplay(slot, parts),
         !.score = MathMax(Num(0), MathMin(Num(100), score))]

scoreTimeSlots(slots, prefs, parts) ==
  [i \in 1..Len(slots) |-> scoreSlot(slots[i], prefs, parts)]

\* variant of analyzeConflicts: totalConflicts counts the slots that have a
\* conflict, not the conflicts
analyzeConflicts_CountsSlots(slots, parts) ==
  LET ids == {parts[k].participantId : k \in 1..Len(parts)}
      keys == {<<slots[i].start, slots[i].end>> : i \in 1..Len(slots)}
      lastWith(key) ==
        CHOOSE i \in 1..Len(slots) :
          /\ <<slots[i].start, slots[i].end>> = key
          /\ \A j \in (i + 1)..Len(slots) : <<slots[j].start, slots[j].end>> # key
  IN  [totalConflicts |->
         Cardinality({i \in 1..Len(slots) : Len(slots[i].conflicts) > 0}),
       participantConflicts |->
         [id \in ids |->
            Cardinality({<<i, n>> \in (1..Len(slots)) \X (1..Len(parts)) :
                           n <= Len(slots[i].conflicts) /\ slots[i].conflicts[n] = id})],
       conflictsByTimeSlot |-> [key \in keys |-> slots[lastWith(key)].conflicts]]

\* MeetingScheduler.analyzeConflicts
analyzeConflicts(slots, parts) ==
  LET ids == {parts[k].participantId : k \in 1..Len(parts)}
      keys == {<<slots[i].start, slots[i].end>> : i \in 1..Len(slots)}
      lastWith(key) ==
        CHOOSE i \in 1..Len(slots) :
          /\ <<slots[i].start, slots[i].end>> = key
          /\ \A j \in (i + 1)..Len(slots) : <<slots[j].start, slots[j].end>> # key
  IN  [totalConflicts |->
         Cardinality({<<i, n>> \in (1..Len(slots)) \X (1..Len(parts)) :
                        n <= Len(slots[i].conflicts)}),
       participantConflicts |->
         [id \in ids |->
            Cardinality({<<i, n>> \in (1..Len(slots)) \X (1..Len(parts)) :
                           n <= Len(slots[i].conflicts) /\ slots[i].conflicts[n] = id})],
       conflictsByTimeSlot |-> [key \in keys |-> slots[lastWith(key)].conflicts]]

\* slots.sort((a, b) => b.score - a.score): stable, a NaN difference counts
\* as 0
scoreNotBelow(a, b) ==
  a.score.kind = "nan" \/ b.score.kind = "nan" \/ ~NumLess(a.score, b.score)

RECURSIVE InsertByScore(_, _)
InsertByScore(sorted, slot) ==
  IF sorted = <<>> THEN <<slot>>
  ELSE IF scoreNotBelow(sorted[Len(sorted)], slot)
       THEN Append(sorted, slot)
       ELSE Append(InsertByScore(SubSeq(sorted, 1, Len(sorted) - 1), slot),
                   sorted[Len(sorted)])

RECURSIVE SortByScore(_)
SortByScore(slots) ==
  IF slots = <<>> THEN <<>>
  ELSE InsertByScore(SortByScore(SubSeq(slots, 1, Len(slots) - 1)), slots[Len(slots)])

\* MeetingScheduler.getTopRecommendations: sorts its argument in place and
\* returns the first count elements; sorted is the argument after the call
getTopRecommendations(slots, count) ==
  LET sorted == SortByScore(slots)
  IN  [sorted |-> sorted, top |-> SubSeq(sorted, 1, Min(count, Len(sorted)))]

\* MeetingScheduler.scheduleOptimalMeeting after getAllBusyPeriods: the
\* returned SchedulingResult (availableSlots is the array that
\* getTopRecommendations sorted)
buildResult(parts, prefs, range, map) ==
  LET candidateSlots == findCandidateTimeSlots(range, prefs, map)
      scoredSlots == scoreTimeSlots(candidateSlots, prefs, parts)
      conflictAnalysis == analyzeConflicts(scoredSlots, parts)
      recs == getTopRecommendations(scoredSlots, 5)
  IN  [availableSlots |-> recs.sorted,
       conflictAnalysis |-> conflictAnalysis,
       recommendations |-> recs.top]

\* ------------------------------------------------------------------ state
VARIABLES
  calendars,          \* ParticipantCalendar[] handed to detectConflicts
  procPc,             \* "ready" before detectConflicts, "done" after it returned
  detection,          \* ConflictDetectionResult of the call
  participants,       \* scheduleOptimalMeeting(participants, ...)
  preferences,        \* scheduleOptimalMeeting(..., preferences, ...)
  searchRange,        \* scheduleOptimalMeeting(..., searchRange)
  hasGetBusyPeriods,  \* the scheduler's calendarProcessor has a getBusyPeriods
  schedPc,            \* position inside scheduleOptimalMeeting
  periodsReturned,    \* what getBusyPeriods resolved to, per participant
  busyPeriods,        \* the Map built by getAllBusyPeriods
  result,             \* the SchedulingResult the promise resolved to
  thrown              \* code of the SchedulingError the promise rejected with

VARIABLES
  expandArgs,         \* [event, dateRange, maxOccurrences] of expandSingleEvent
  expandPc,           \* "ready" before expandSingleEvent, "done" after it returned
  occurrences,        \* the CalendarEvent[] expandSingleEvent returned
  normInput,          \* the calendar first handed to normalizeTimezones
  normCalendar,       \* the calendar after the normalizeTimezones passes so far
  normPasses,         \* how many times normalizeTimezones was applied
  icalLines,          \* the unfolded lines of the content given to parseICalContent
  parsePc,            \* "ready" before parseICalContent, then "returned" or "failed"
  parsed              \* the events of the ParticipantCalendar parseICalContent returned

VARIABLES
  freeArgs,           \* [calendars, dateRange, durationMinutes] of findFreeTimeSlots
  freePc,             \* "ready" before findFreeTimeSlots, "done" after it returned
  freeSlots,          \* the Date[] findFreeTimeSlots returned
  altPc,              \* "done" once findAlternativeSuggestions returned
  alternatives,       \* what findAlternativeSuggestions returned
  dataInput,          \* the ParticipantCalendar handed to normalizeCalendarData
  dataPc,             \* "ready", "normalized" after normalizeCalendarData, "detected"
  dataResult,         \* the ValidationResult of normalizeCalendarData
  dataDetection,      \* detectConflicts on the normalized calendar
  redisAvailable,     \* redisCache.isAvailable()
  redisStore,         \* the session serialized under its key in Redis
  memoryStore,        \* the session object in the in-memory Map
  sessionOps,         \* per running request: its position and the session it holds
  added,              \* participants whose addParticipantToSession returned a session
  lastRead            \* what the latest completed getUploadSession returned

procVars == <<calendars, procPc, detection>>
freeVars == <<freeArgs, freePc, freeSlots>>
altVars == <<altPc, alternatives>>
dataVars == <<dataInput, dataPc, dataResult, dataDetection>>
sessionVars == <<redisAvailable, redisStore, memoryStore, sessionOps, added, lastRead>>
expandVars == <<expandArgs, expandPc, occurrences>>
normVars == <<normInput, normCalendar, normPasses>>
parseVars == <<icalLines, parsePc, parsed>>
schedVars == <<participants, preferences, searchRange, hasGetBusyPeriods, schedPc,
               periodsReturned, busyPeriods, result, thrown>>
vars == <<calendars, procPc, detection, participants, preferences, searchRange,
          hasGetBusyPeriods, schedPc, periodsReturned, busyPeriods, result, thrown,
          expandArgs, expandPc, occurrences, normInput, normCalendar, normPasses,
          icalLines, parsePc, parsed, freeArgs, freePc, freeSlots, altPc, alternatives,
          dataInput, dataPc, dataResult, dataDetection, redisAvailable, redisStore,
          memoryStore, sessionOps, added, lastRead>>

NoDetection == [hasConflicts |-> FALSE, conflicts |-> <<>>, busyPeriods |-> <<>>]
NoResult == [availableSlots |-> <<>>, conflictAnalysis |-> <<>>, recommendations |-> <<>>]

\* "09:00" and the like as character sequences
T0900 == <<"0", "9", ":", "0", "0">>
T0930 == <<"9", ":", "3", "0">>
T1000 == <<"1", "0", ":", "0", "0">>
T1100 == <<"1", "1", ":", "0", "0">>
T1700 == <<"1", "7", ":", "0", "0">>
T2359 == <<"2", "3", ":", "5", "9">>
T0800 == <<"0", "8", ":", "0", "0">>

NoPreferences ==
  [duration |-> 60, timeRangeStart |-> T0900, timeRangeEnd |-> T1700,
   excludeWeekends |-> FALSE, excludedDates |-> <<>>, bufferTime |-> 0,
   preferredTimezones |-> <<>>]

\* no scheduleOptimalMeeting call is under way
SchedIdle ==
  /\ participants = <<>>
  /\ preferences = NoPreferences
  /\ searchRange = [start |-> 0, end |-> 0]
  /\ hasGetBusyPeriods = FALSE
  /\ schedPc = "idle"
  /\ periodsReturned = <<>>
  /\ busyPeriods = <<>>
  /\ result = NoResult
  /\ thrown = "none"

\* no detectConflicts call is under way
ProcIdle ==
  /\ calendars = <<>>
  /\ procPc = "idle"
  /\ detection = NoDetection

\* no expandSingleEvent call is under way
ExpandIdle ==
  /\ expandArgs = <<>>
  /\ expandPc = "idle"
  /\ occurrences = <<>>

\* no normalizeTimezones call is under way
NormIdle ==
  /\ normInput = <<>>
  /\ normCalendar = <<>>
  /\ normPasses = 0

\* no parseICalContent call is under way
ParseIdle ==
  /\ icalLines = <<>>
  /\ parsePc = "idle"
  /\ parsed = <<>>

\* no findFreeTimeSlots call is under way
FreeIdle ==
  /\ freeArgs = <<>>
  /\ freePc = "idle"
  /\ freeSlots = <<>>

\* findAlternativeSuggestions was not called
AltIdle ==
  /\ altPc = "idle"
  /\ alternatives = <<>>

\* no normalizeCalendarData call is under way
DataIdle ==
  /\ dataInput = <<>>
  /\ dataPc = "idle"
  /\ dataResult = <<>>
  /\ dataDetection = <<>>

\* no upload session exists and no request runs
SessionIdle ==
  /\ redisAvailable = FALSE
  /\ redisStore = <<>>
  /\ memoryStore = <<>>
  /\ sessionOps = <<>>
  /\ added = {}
  /\ lastRead = <<>>

SpanLists == SeqsUpTo(Spans, MaxEvents)

\* the calendar of a second participant, the same in every call
OtherCalendar ==
  [participantId |-> 2,
   events |-> WithIds(<<[start |-> 1, end |-> 3, status |-> "confirmed"]>>)]

\* the first participant has at most MaxEvents events, at most one of them
\* cancelled
ProcInit ==
  /\ \E spans \in SpanLists :
       \E cancelledAt \in 0..Len(spans) :
         calendars = <<[participantId |-> 1,
                        events |-> WithIds(AsEvents(spans, cancelledAt))],
                       OtherCalendar>>
  /\ procPc = "ready"
  /\ detection = NoDetection
  /\ SchedIdle
  /\ ExpandIdle
  /\ NormIdle
  /\ ParseIdle
  /\ FreeIdle
  /\ AltIdle
  /\ DataIdle
  /\ SessionIdle

DetectConflicts ==
  /\ procPc = "ready"
  /\ detection' = detectConflicts(calendars)
  /\ procPc' = "done"
  /\ UNCHANGED calendars
  /\ UNCHANGED schedVars
  /\ UNCHANGED <<expandVars, normVars, parseVars>>
  /\ UNCHANGED <<freeVars, altVars, dataVars, sessionVars>>

ProcNext == DetectConflicts

SpecProc == ProcInit /\ [][ProcNext]_vars

\* ------------------------------------------------- scheduler requests
\* participant ids come from the uploaded file's name (generateParticipantId),
\* so two participants can carry the same id
ParticipantShapes ==
  {[participantId |-> "calendar", timezone |-> "UTC"],
   [participantId |-> "alice", timezone |-> "America/New_York"]}

\* busy-period lists a getBusyPeriods call resolves to (minutes of the epoch
\* day): none, 09:30-10:00, or 09:30-10:00 and 10:30-10:40
BusyOptions ==
  {<<>>,
   <<[start |-> 570, end |-> 600]>>,
   <<[start |-> 570, end |-> 600], [start |-> 630, end |-> 640]>>}

\* what the getBusyPeriods calls for n participants resolve to; the list of a
\* single period is the first participant's only
BusyReturns(n) ==
  {returned \in [1..n -> BusyOptions] :
     \A k \in 2..n : returned[k] # <<[start |-> 570, end |-> 600]>>}

\* Friday 00:00 - Friday 12:00, and Friday 10:00 - Sunday 00:00
ValidRanges == {[start |-> 0, end |-> 720], [start |-> 600, end |-> 2880]}
BadRanges == {[start |-> 720, end |-> 720], [start |-> 1440, end |-> 0]}

\* requests that differ in what the slots and the scores depend on
SlotRequests ==
  /\ participants \in SeqsUpTo(ParticipantShapes, MaxParticipants)
  /\ preferences \in
       [duration : {30, 50},
        timeRangeStart : {T0900, T0930},
        timeRangeEnd : {T0900, T1000, T1100},
        excludeWeekends : BOOLEAN,
        excludedDates : {<<>>, <<600>>},
        bufferTime : {-45, 0, 10},
        preferredTimezones : {<<>>, <<"America/New_York">>}]
  /\ searchRange \in ValidRanges

\* requests that differ in what validateInputs looks at
CheckedRequests ==
  /\ participants \in SeqsUpTo({[participantId |-> "alice", timezone |-> "UTC"]}, 1)
  /\ preferences \in
       [duration : {-30, 0, 30, 500},
        timeRangeStart : {T0900, T0930, T1700, <<"2", "4", ":", "0", "0">>,
                          <<"9", ":", "6", "0">>, <<"0", "9", "0", "0">>},
        timeRangeEnd : {T1000, T2359, T0800, <<"1", "0", ":", "0">>,
                        <<"1", "a", ":", "0", "0">>, <<>>},
        excludeWeekends : {FALSE},
        excludedDates : {<<>>},
        bufferTime : {0, 75},
        preferredTimezones : {<<>>}]
  /\ searchRange \in ValidRanges \cup BadRanges

\* participants of a meeting of a whole team
CrowdSize == 4
OfficeNames == <<"alice", "bob", "carol", "dave", "erin", "frank">>

\* requests of two colleagues or a whole team in New York for one hour on
\* Friday, between 09:00 and 11:00 or 17:00
OfficeRequests ==
  /\ participants \in
       {[k \in 1..n |-> [participantId |-> OfficeNames[k], timezone |-> "America/New_York"]] :
          n \in {2, CrowdSize}}
  /\ preferences \in
       [duration : {60},
        timeRangeStart : {T0900},
        timeRangeEnd : {T1100, T1700},
        excludeWeekends : {TRUE},
        excludedDates : {<<>>},
        bufferTime : {0},
        preferredTimezones : {<<>>, <<"America/New_York">>}]
  /\ searchRange = [start |-> 0, end |-> 720]

SchedInit ==
  /\ SlotRequests \/ CheckedRequests \/ OfficeRequests
  /\ hasGetBusyPeriods \in BOOLEAN
  /\ schedPc = "call"
  /\ periodsReturned = <<>>
  /\ busyPeriods = <<>>
  /\ result = NoResult
  /\ thrown = "none"
  /\ ProcIdle
  /\ ExpandIdle
  /\ NormIdle
  /\ ParseIdle
  /\ FreeIdle
  /\ AltIdle
  /\ DataIdle
  /\ SessionIdle

\* scheduleOptimalMeeting: validateInputs returns
ValidateInputs ==
  /\ schedPc = "call"
  /\ validateInputs(participants, preferences, searchRange) = "ok"
  /\ schedPc' = "validated"
  /\ UNCHANGED <<participants, preferences, searchRange, hasGetBusyPeriods,
                 periodsReturned, busyPeriods, result, thrown>>
  /\ UNCHANGED procVars
  /\ UNCHANGED <<expandVars, normVars, parseVars>>
  /\ UNCHANGED <<freeVars, altVars, dataVars, sessionVars>>

\* scheduleOptimalMeeting: validateInputs throws, the catch block rethrows the
\* SchedulingError
ValidateInputsThrows ==
  /\ schedPc = "call"
  /\ validateInputs(participants, preferences, searchRange) # "ok"
  /\ thrown' = validateInputs(participants, preferences, searchRange)
  /\ schedPc' = "failed"
  /\ UNCHANGED <<participants, preferences, searchRange, hasGetBusyPeriods,
                 periodsReturned, busyPeriods, result>>
  /\ UNCHANGED procVars
  /\ UNCHANGED <<expandVars, normVars, parseVars>>
  /\ UNCHANGED <<freeVars, altVars, dataVars, sessionVars>>

\* scheduleOptimalMeeting: getAllBusyPeriods awaits getBusyPeriods for each
\* participant
GetAllBusyPeriods ==
  /\ schedPc = "validated"
  /\ hasGetBusyPeriods
  /\ \E returned \in BusyReturns(Len(participants)) :
       /\ periodsReturned' = returned
       /\ busyPeriods' = getAllBusyPeriods(participants, returned)
  /\ schedPc' = "busy"
  /\ UNCHANGED <<participants, preferences, searchRange, hasGetBusyPeriods,
                 result, thrown>>
  /\ UNCHANGED procVars
  /\ UNCHANGED <<expandVars, normVars, parseVars>>
  /\ UNCHANGED <<freeVars, altVars, dataVars, sessionVars>>

\* scheduleOptimalMeeting: calendarProcessor.getBusyPeriods is not a function;
\* the TypeError is caught and wrapped
GetAllBusyPeriodsThrows ==
  /\ schedPc = "validated"
  /\ ~hasGetBusyPeriods
  /\ thrown' = "SCHEDULING_FAILED"
  /\ schedPc' = "failed"
  /\ UNCHANGED <<participants, preferences, searchRange, hasGetBusyPeriods,
                 periodsReturned, busyPeriods, result>>
  /\ UNCHANGED procVars
  /\ UNCHANGED <<expandVars, normVars, parseVars>>
  /\ UNCHANGED <<freeVars, altVars, dataVars, sessionVars>>

\* scheduleOptimalMeeting: candidates, scores, analysis, recommendations, return
ReturnResult ==
  /\ schedPc = "busy"
  /\ result' = buildResult(participants, preferences, searchRange, busyPeriods)
  /\ schedPc' = "returned"
  /\ UNCHANGED <<participants, preferences, searchRange, hasGetBusyPeriods,
                 periodsReturned, busyPeriods, thrown>>
  /\ UNCHANGED procVars
  /\ UNCHANGED <<expandVars, normVars, parseVars>>
  /\ UNCHANGED <<freeVars, altVars, dataVars, sessionVars>>

\* Array.prototype.sort with comparator a.conflicts.length - b.conflicts.length
\* (stable)
RECURSIVE InsertByConflicts(_, _)
InsertByConflicts(sorted, slot) ==
  IF sorted = <<>> THEN <<slot>>
  ELSE IF Len(sorted[Len(sorted)].conflicts) <= Len(slot.conflicts)
       THEN Append(sorted, slot)
       ELSE Append(InsertByConflicts(SubSeq(sorted, 1, Len(sorted) - 1), slot),
                   sorted[Len(sorted)])

RECURSIVE SortByConflicts(_)
SortByConflicts(slots) ==
  IF slots = <<>> THEN <<>>
  ELSE InsertByConflicts(SortByConflicts(SubSeq(slots, 1, Len(slots) - 1)),
                         slots[Len(slots)])

\* the filter of findAlternativeSuggestions: the comparison with
\* availableSlots[0]?.conflicts.length is false when there is no first slot
fewerThanFirst(res, slot) ==
  /\ Len(slot.conflicts) > 0
  /\ Len(res.availableSlots) > 0
  /\ Len(slot.conflicts) < Len(res.availableSlots[1].conflicts)

\* MeetingScheduler.findAlternativeSuggestions
findAlternativeSuggestions(res, prefs) ==
  LET kept == SelectSeq(res.availableSlots, LAMBDA slot : fewerThanFirst(res, slot))
      sorted == SortByConflicts(kept)
  IN  [shorterDuration |-> <<>>,
       expandedHours |-> <<>>,
       fewerParticipants |-> SubSeq(sorted, 1, Min(3, Len(sorted)))]

\* findAlternativeSuggestions on the result scheduleOptimalMeeting returned
FindAlternativeSuggestions ==
  /\ schedPc = "returned"
  /\ altPc = "idle"
  /\ alternatives' = findAlternativeSuggestions(result, preferences)
  /\ altPc' = "done"
  /\ UNCHANGED schedVars
  /\ UNCHANGED <<procVars, expandVars, normVars, parseVars>>
  /\ UNCHANGED <<freeVars, dataVars, sessionVars>>

SchedNext ==
  \/ FindAlternativeSuggestions
  \/ ValidateInputs
  \/ ValidateInputsThrows
  \/ GetAllBusyPeriods
  \/ GetAllBusyPeriodsThrows
  \/ ReturnResult

SpecSched == SchedInit /\ [][SchedNext]_vars

\* ---------------------------------------------------------------- claims
\* what one participant's call produced
EventsOf(k) == calendars[k].events
PeriodsOf(k) == SelectSeq(detection.busyPeriods, LAMBDA b : b.participantId = k)
ConflictsOf(k) == SelectSeq(detection.conflicts, LAMBDA c : c.participantId = k)
Participants == 1..Len(calendars)

\* the unit interval [t, t+1) lies inside [iv.start, iv.end)
Covers(iv, t) == iv.start <= t /\ t < iv.end
StrictOverlap(x, y) == x.start < y.end /\ y.start < x.end
Touch(x, y) == y.start = x.end

\* C1: each participant's busy periods are sorted by start and every period
\* ends strictly before the next one starts (no overlap, no touching).
C1_BusyPeriodsSortedApart ==
  procPc = "done" =>
    \A k \in Participants :
      LET ps == PeriodsOf(k)
      IN  /\ \A i \in 1..(Len(ps) - 1) :
                /\ ps[i].start <= ps[i + 1].start
                /\ ps[i].end < ps[i + 1].start
          /\ \A i, j \in 1..Len(ps) : i < j => ~StrictOverlap(ps[i], ps[j])

\* C1 witness: a participant with two busy periods, the first one merged
\* from events that only touch.
C1_Witness ==
  /\ procPc = "done"
  /\ \E k \in Participants :
       /\ Len(PeriodsOf(k)) >= 2
       /\ Len(PeriodsOf(k)[1].eventIds) >= 2
       /\ \E i, j \in 1..Len(EventsOf(k)) :
            /\ Touch(EventsOf(k)[i], EventsOf(k)[j])
            /\ EventsOf(k)[i].status # "cancelled"
            /\ EventsOf(k)[j].status # "cancelled"

\* C2: for each participant the time covered by the busy periods is exactly
\* the time covered by the non-cancelled events.
C2_BusyCoverageEqualsEvents ==
  procPc = "done" =>
    \A k \in Participants : \A t \in 0..MaxTime :
      (\E i \in 1..Len(PeriodsOf(k)) : Covers(PeriodsOf(k)[i], t))
        <=> (\E i \in 1..Len(EventsOf(k)) :
                /\ EventsOf(k)[i].status # "cancelled"
                /\ Covers(EventsOf(k)[i], t))

\* C2 witness: an event contained in an earlier, longer one, next to a
\* cancelled event whose time stays free.
C2_Witness ==
  /\ procPc = "done"
  /\ \E k \in Participants : \E i, j, c \in 1..Len(EventsOf(k)) :
       LET x == EventsOf(k)[i]
           y == EventsOf(k)[j]
           z == EventsOf(k)[c]
       IN  /\ x.status # "cancelled" /\ y.status # "cancelled"
           /\ x.start < y.start /\ y.end < x.end
           /\ z.status = "cancelled"
           /\ \E t \in 0..MaxTime :
                /\ Covers(z, t)
                /\ \A n \in 1..Len(PeriodsOf(k)) : ~Covers(PeriodsOf(k)[n], t)

\* some busy period of participant k lists both event ids
InOnePeriod(k, a, b) ==
  \E n \in 1..Len(PeriodsOf(k)) :
    {a, b} \subseteq Range(PeriodsOf(k)[n].eventIds)

\* every reported conflict is a strict overlap, and touching events are
\* never reported
ConflictsAreStrictOverlaps ==
  /\ \A n \in 1..Len(detection.conflicts) :
       LET c == detection.conflicts[n]
       IN  /\ c.event1.start < c.event2.end
           /\ c.event2.start < c.event1.end
  /\ \A k \in Participants : \A i, j \in 1..Len(EventsOf(k)) :
       Touch(EventsOf(k)[i], EventsOf(k)[j]) =>
         \A n \in 1..Len(ConflictsOf(k)) :
           {ConflictsOf(k)[n].event1.id, ConflictsOf(k)[n].event2.id} # {i, j}

\* C3 as stated: reported conflicts are strict overlaps, touching events are
\* not reported, and any two touching events share one merged busy period.
C3_Original ==
  procPc = "done" =>
    /\ ConflictsAreStrictOverlaps
    /\ \A k \in Participants : \A i, j \in 1..Len(EventsOf(k)) :
         Touch(EventsOf(k)[i], EventsOf(k)[j]) => InOnePeriod(k, i, j)

\* C3 amended: reported conflicts are strict overlaps, touching events are
\* not reported, and two touching events neither of which is cancelled share
\* one merged busy period.
C3_TouchingNotConflictButMerged ==
  procPc = "done" =>
    /\ ConflictsAreStrictOverlaps
    /\ \A k \in Participants : \A i, j \in 1..Len(EventsOf(k)) :
         (/\ Touch(EventsOf(k)[i], EventsOf(k)[j])
          /\ EventsOf(k)[i].status # "cancelled"
          /\ EventsOf(k)[j].status # "cancelled")
           => InOnePeriod(k, i, j)

\* C3 witness: a calendar with a touching pair of live events and a reported
\* conflict.
C3_Witness ==
  /\ procPc = "done"
  /\ \E k \in Participants :
       /\ Len(ConflictsOf(k)) >= 1
       /\ \E i, j \in 1..Len(EventsOf(k)) :
            /\ Touch(EventsOf(k)[i], EventsOf(k)[j])
            /\ EventsOf(k)[i].status # "cancelled"
            /\ EventsOf(k)[j].status # "cancelled"
            /\ InOnePeriod(k, i, j)

\* x comes before y when the list is sorted by start (ties keep input order)
SortsFirst(x, y) == x.start < y.start \/ (x.start = y.start /\ x.id < y.id)

\* C4: the conflicts of a participant are exactly the strictly overlapping
\* pairs of its events, each once, event1 sorting first, with the overlap
\* window max(starts)..min(ends) and its length in minutes.
C4_ConflictsExactlyOverlappingPairs ==
  procPc = "done" =>
    \A k \in Participants :
      LET evs == EventsOf(k)
          cs == ConflictsOf(k)
      IN  /\ \A i, j \in 1..Len(evs) :
               i < j =>
                 Cardinality({n \in 1..Len(cs) : {cs[n].event1.id, cs[n].event2.id} = {i, j}})
                   = (IF StrictOverlap(evs[i], evs[j]) THEN 1 ELSE 0)
          /\ \A n \in 1..Len(cs) :
               LET c == cs[n]
               IN  /\ c.event1.id \in 1..Len(evs) /\ c.event1 = evs[c.event1.id]
                   /\ c.event2.id \in 1..Len(evs) /\ c.event2 = evs[c.event2.id]
                   /\ c.event1.id # c.event2.id
                   /\ SortsFirst(c.event1, c.event2)
                   /\ c.overlapStart = Max(c.event1.start, c.event2.start)
                   /\ c.overlapEnd = Min(c.event1.end, c.event2.end)
                   /\ c.overlapDuration = c.overlapEnd - c.overlapStart

\* C4 witness: an unsorted list in which one event overlaps two later ones
\* and the inner loop breaks on an event that starts after another has ended.
C4_Witness ==
  /\ procPc = "done"
  /\ \E k \in Participants :
       /\ Len(ConflictsOf(k)) >= 2
       /\ \E i, j \in 1..Len(EventsOf(k)) :
            /\ i < j
            /\ EventsOf(k)[j].start < EventsOf(k)[i].start
            /\ EventsOf(k)[i].start >= EventsOf(k)[j].end

\* ------------------------------------------------------ scheduler claims
Returned == schedPc = "returned"
SlotsOf(list) == {list[i] : i \in 1..Len(list)}
AllSlots == SlotsOf(result.availableSlots) \cup SlotsOf(result.recommendations)

\* the k-th participant is busy during the slot: one of the busy periods
\* getBusyPeriods gave for that participant strictly overlaps it
BusyDuring(k, slot) ==
  \E n \in 1..Len(periodsReturned[k]) :
    /\ slot.start < periodsReturned[k][n].end
    /\ periodsReturned[k][n].start < slot.end

\* C5: for every slot and every participant of the request, the participant's
\* id is in slot.conflicts exactly when one of that participant's busy periods
\* strictly overlaps the slot (touching does not count, and a busy participant
\* is never reported as free).
C5_ConflictIffBusy ==
  Returned =>
    \A slot \in SlotsOf(result.availableSlots) : \A k \in 1..Len(participants) :
      (participants[k].participantId \in Range(slot.conflicts)) <=> BusyDuring(k, slot)

\* C5 restricted to requests whose participant ids are pairwise distinct
C5_ConflictIffBusyDistinctIds ==
  (/\ Returned
   /\ \A j, k \in 1..Len(participants) :
        j # k => participants[j].participantId # participants[k].participantId)
    => \A slot \in SlotsOf(result.availableSlots) : \A k \in 1..Len(participants) :
         (participants[k].participantId \in Range(slot.conflicts)) <=> BusyDuring(k, slot)

\* minutes after midnight of a time-of-day string
MinutesOf(str) == splitHourMinute(str)[1] * 60 + splitHourMinute(str)[2]

\* the midnights of the days the search visits, and those it does not skip
WalkDays ==
  {d * MinutesPerDay : d \in
      {n \in 0..(searchRange.end \div MinutesPerDay) :
          n * MinutesPerDay + MinutesPerDay > searchRange.start}}
OpenDays ==
  {D \in WalkDays :
      /\ ~(preferences.excludeWeekends /\ getDay(D) \in {0, 6})
      /\ \A i \in 1..Len(preferences.excludedDates) :
           preferences.excludedDates[i] \div MinutesPerDay # D \div MinutesPerDay}

\* the multiples k for which timeRangeStart + 15k still leaves room for
\* duration + bufferTime before timeRangeEnd
FittingSteps(bs, be, need) ==
  {n \in 0..(MinutesPerDay \div 15) : bs + 15 * n + need <= be}

\* C6: on every non-skipped day the slots are exactly those starting at
\* timeRangeStart + 15k with start + duration + bufferTime <= timeRangeEnd,
\* each once, and every slot lasts exactly duration minutes.
C6_DaySlotsOnGrid ==
  Returned =>
    LET bs == MinutesOf(preferences.timeRangeStart)
        be == MinutesOf(preferences.timeRangeEnd)
        ks == FittingSteps(bs, be, preferences.duration + preferences.bufferTime)
        slots == result.availableSlots
    IN  /\ \A D \in OpenDays :
             LET onDay == {i \in 1..Len(slots) :
                              slots[i].start \div MinutesPerDay = D \div MinutesPerDay}
             IN  /\ {slots[i].start : i \in onDay} = {D + bs + 15 * k : k \in ks}
                 /\ Cardinality(onDay) = Cardinality(ks)
        /\ \A slot \in AllSlots : slot.end - slot.start = preferences.duration

\* C6 witness: a day with several slots, a positive buffer, and a last slot
\* that ends exactly bufferTime before the end of business hours.
C6_Witness ==
  /\ Returned
  /\ preferences.bufferTime > 0
  /\ Len(result.availableSlots) >= 2
  /\ \E slot \in SlotsOf(result.availableSlots) :
       (slot.end + preferences.bufferTime) % MinutesPerDay
         = MinutesOf(preferences.timeRangeEnd)

\* the character of a decimal digit
DigitChar(i) ==
  CASE i = 0 -> "0" [] i = 1 -> "1" [] i = 2 -> "2" [] i = 3 -> "3" [] i = 4 -> "4"
    [] i = 5 -> "5" [] i = 6 -> "6" [] i = 7 -> "7" [] i = 8 -> "8" [] i = 9 -> "9"

\* the strings of the HH:MM pattern: hour 0-23 in one or two digits, a colon,
\* minute 00-59 in two digits
HHMMStrings ==
  {<<DigitChar(h \div 10), DigitChar(h % 10), ":", DigitChar(m \div 10), DigitChar(m % 10)>> :
      h \in 0..23, m \in 0..59}
  \cup {<<DigitChar(h), ":", DigitChar(m \div 10), DigitChar(m % 10)>> :
      h \in 0..9, m \in 0..59}

\* the code of the first violated condition, in the order of the claim
FirstViolation ==
  IF Len(participants) = 0 THEN "NO_PARTICIPANTS"
  ELSE IF preferences.duration <= 0 THEN "INVALID_DURATION"
  ELSE IF searchRange.start >= searchRange.end THEN "INVALID_RANGE"
  ELSE IF preferences.timeRangeStart \notin HHMMStrings
          \/ preferences.timeRangeEnd \notin HHMMStrings
       THEN "INVALID_TIME_FORMAT"
  ELSE "none"

\* C7: a request with no participants, duration <= 0, an empty or inverted
\* search range or a time string off the HH:MM pattern is rejected with the
\* code of the first violated condition and yields no result.
C7_RejectsInOrder ==
  (schedPc # "call" /\ FirstViolation # "none") =>
    /\ schedPc = "failed"
    /\ thrown = FirstViolation
    /\ result = NoResult

\* C7 witness: a rejected request that violates a later condition as well as
\* the one whose code it carries.
C7_Witness ==
  /\ schedPc = "failed"
  /\ thrown = "INVALID_DURATION"
  /\ searchRange.start >= searchRange.end
  /\ preferences.timeRangeEnd \notin HHMMStrings

\* the MeetingPreferences constraints
PreferencesValid ==
  /\ preferences.duration > 0
  /\ preferences.duration <= 480
  /\ preferences.timeRangeStart \in HHMMStrings
  /\ preferences.timeRangeEnd \in HHMMStrings
  /\ MinutesOf(preferences.timeRangeStart) < MinutesOf(preferences.timeRangeEnd)
  /\ preferences.bufferTime >= 0
  /\ preferences.bufferTime <= 60

\* C8: a result is returned only for preferences that satisfy the
\* MeetingPreferences constraints (window start before end, duration <= 480,
\* bufferTime within 0..60).
C8_NoResultForInvalidPreferences ==
  Returned => PreferencesValid

\* numerator of the expected score over the denominator n * |W|, where n is
\* the participant count and W the length of the business-hours window
ExpectedScoreTimes(slot, n, W) ==
  LET c == Len(slot.conflicts)
      t == slot.start % MinutesPerDay
      A == Abs(2 * t - MinutesOf(preferences.timeRangeStart)
                     - MinutesOf(preferences.timeRangeEnd))
      absW == Abs(W)
      sgnW == IF W > 0 THEN 1 ELSE -1
      timeBonusTimesW == Max(0, 10 * (W - A) * sgnW)
      P == IF Len(preferences.preferredTimezones) = 0 THEN 0
           ELSE Cardinality({k \in 1..Len(participants) :
                               \E z \in 1..Len(preferences.preferredTimezones) :
                                 preferences.preferredTimezones[z] = participants[k].timezone})
      raw == 100 * n * absW - 50 * c * absW + n * timeBonusTimesW + 5 * P * absW
  IN  Max(0, Min(100 * n * absW, raw))

WindowLength ==
  MinutesOf(preferences.timeRangeEnd) - MinutesOf(preferences.timeRangeStart)

\* C9: every slot's score is clamp(100 - 50 * conflicts / participants
\* + timeBonus + tzBonus, 0, 100), timeBonus = max(0, 10 * (1 - d / h)),
\* tzBonus = 5 * (participants in a preferred zone) / participants (0 when no
\* zone is preferred); stated where the window has a length (h # 0).
C9_ScoreFormula ==
  (Returned /\ WindowLength # 0) =>
    \A slot \in AllSlots :
      /\ slot.score.kind = "fin"
      /\ slot.score.n * (Len(participants) * Abs(WindowLength))
           = ExpectedScoreTimes(slot, Len(participants), WindowLength) * slot.score.d

\* C9 witness: a slot with a conflict, a time bonus strictly between 0 and 10
\* and a timezone bonus strictly between 0 and 5.
C9_Witness ==
  /\ Returned
  /\ WindowLength > 0
  /\ \E slot \in SlotsOf(result.availableSlots) :
       /\ Len(slot.conflicts) >= 1
       /\ Abs(2 * (slot.start % MinutesPerDay) - MinutesOf(preferences.timeRangeStart)
                - MinutesOf(preferences.timeRangeEnd)) \in 1..(WindowLength - 1)
       /\ \E j, k \in 1..Len(participants) :
            /\ participants[j].timezone \in Range(preferences.preferredTimezones)
            /\ participants[k].timezone \notin Range(preferences.preferredTimezones)

ScoreLower(a, b) ==
  a.score.kind # "nan" /\ b.score.kind # "nan" /\ NumLess(a.score, b.score)

TimeOfDay(slot) == slot.start % MinutesPerDay

\* C11: of two slots of one result with the same start time of day, the one
\* with strictly fewer conflicting participants never has the lower score.
C11_ScoreMonotoneInConflicts ==
  Returned =>
    \A a, b \in SlotsOf(result.availableSlots) :
      (TimeOfDay(a) = TimeOfDay(b) /\ Len(a.conflicts) < Len(b.conflicts))
        => ~ScoreLower(a, b)

\* C11 witness: two slots at the same time of day on different days, one with
\* a conflict and a lower score, and another such pair that differs by one
\* conflict among two participants.
C11_Witness ==
  /\ Returned
  /\ \E a, b \in SlotsOf(result.availableSlots) :
       /\ TimeOfDay(a) = TimeOfDay(b)
       /\ a.start # b.start
       /\ Len(a.conflicts) = 0
       /\ Len(b.conflicts) = 2
       /\ ScoreLower(b, a)

\* C12: recommendations holds min(5, number of slots) slots; they are in
\* non-increasing score order, equal scores in generation order (ascending
\* start); every slot left out scores no higher than any recommended one and,
\* where it ties with one, was generated after it.
C12_RecommendationsTopFiveStable ==
  Returned =>
    LET recs == result.recommendations
        all == SlotsOf(result.availableSlots)
    IN  /\ Len(recs) = Min(5, Cardinality(all))
        /\ SlotsOf(recs) \subseteq all
        /\ \A i, j \in 1..Len(recs) :
             i < j => /\ ~ScoreLower(recs[i], recs[j])
                      /\ recs[i].score = recs[j].score => recs[i].start < recs[j].start
        /\ \A out \in all \ SlotsOf(recs) : \A i \in 1..Len(recs) :
             /\ ~ScoreLower(recs[i], out)
             /\ recs[i].score = out.score => recs[i].start < out.start

\* C12 restricted to requests whose business-hours window has a length, where
\* every score is a number
C12_TopFiveStableWithWindow ==
  (Returned /\ WindowLength # 0) => C12_RecommendationsTopFiveStable

RECURSIVE SumOver(_, _)
\* sum of f over the finite set S
SumOver(f, S) ==
  IF S = {} THEN 0
  ELSE LET x == CHOOSE y \in S : TRUE IN f[x] + SumOver(f, S \ {x})

RECURSIVE SumLens(_, _)
\* sum of the lengths of the conflicts lists of slots[i..]
SumLens(slots, i) ==
  IF i > Len(slots) THEN 0 ELSE Len(slots[i].conflicts) + SumLens(slots, i + 1)

\* C13: totalConflicts is the sum of |slot.conflicts| over the slots;
\* participantConflicts has one count for each participant id of the request,
\* the number of slots whose conflicts contain it; the counts sum to
\* totalConflicts; conflictsByTimeSlot maps each slot's (start, end) to the
\* slot's conflicts.
C13_ConflictAnalysisCounts ==
  Returned =>
    LET slots == result.availableSlots
        ca == result.conflictAnalysis
        ids == {participants[k].participantId : k \in 1..Len(participants)}
    IN  /\ ca.totalConflicts = SumLens(slots, 1)
        /\ DOMAIN ca.participantConflicts = ids
        /\ \A p \in ids :
             ca.participantConflicts[p]
               = Cardinality({i \in 1..Len(slots) : p \in Range(slots[i].conflicts)})
        /\ SumOver(ca.participantConflicts, ids) = ca.totalConflicts
        /\ DOMAIN ca.conflictsByTimeSlot
             = {<<slots[i].start, slots[i].end>> : i \in 1..Len(slots)}
        /\ \A i \in 1..Len(slots) :
             ca.conflictsByTimeSlot[<<slots[i].start, slots[i].end>>] = slots[i].conflicts

\* C13 witness: two participants, one in the conflicts of several slots and
\* one who never conflicts.
C13_Witness ==
  /\ Returned
  /\ \E j, k \in 1..Len(participants) :
       /\ result.conflictAnalysis.participantConflicts[participants[j].participantId] >= 2
       /\ result.conflictAnalysis.participantConflicts[participants[k].participantId] = 0

\* the day (count of days since the epoch) an instant lies on
DayOf(t) == t \div MinutesPerDay

\* C14: no slot starts on a Saturday or Sunday when excludeWeekends is set,
\* no slot starts on the calendar day of an excludedDates entry, and every
\* other day of the walk has its slots (those of the business-hours grid).
C14_NoSlotOnSkippedDay ==
  Returned =>
    LET slots == result.availableSlots
        bs == MinutesOf(preferences.timeRangeStart)
        be == MinutesOf(preferences.timeRangeEnd)
        ks == FittingSteps(bs, be, preferences.duration + preferences.bufferTime)
    IN  /\ \A i \in 1..Len(slots) :
             /\ preferences.excludeWeekends => getDay(slots[i].start) \in 1..5
             /\ \A e \in 1..Len(preferences.excludedDates) :
                  DayOf(slots[i].start) # DayOf(preferences.excludedDates[e])
        /\ \A D \in OpenDays : \A k \in ks :
             \E i \in 1..Len(slots) : slots[i].start = D + bs + 15 * k

\* C14 witness: a walk over a weekday and a weekend in which the excluded
\* date, given with a time of day, is skipped and another day has slots.
C14_Witness ==
  /\ Returned
  /\ Len(result.availableSlots) > 0
  /\ \E e \in 1..Len(preferences.excludedDates) :
       /\ preferences.excludedDates[e] % MinutesPerDay # 0
       /\ DayOf(preferences.excludedDates[e]) * MinutesPerDay \in WalkDays
  /\ \E D \in WalkDays : getDay(D) \in {0, 6}

\* C15: every valid request completes with a SchedulingResult, the busy
\* periods coming from an operation the Calendar Processor provides; so a call
\* that passed validation never ends in a SchedulingError.
C15_ValidRequestCompletes ==
  FirstViolation = "none" => schedPc # "failed"

\* C15 on a scheduler whose processor was given a getBusyPeriods from outside
\* (the unit tests do so): there every valid request completes
C15_CompletesWithInstalledGetBusyPeriods ==
  (FirstViolation = "none" /\ hasGetBusyPeriods) => schedPc # "failed"

\* ------------------------------------------------------ RecurrenceExpander
DefaultMaxOccurrences == 1000

\* date-fns addDays and differenceInMilliseconds
addDays(t, n) == t + n * MinutesPerDay
differenceInMilliseconds(a, b) == getTime(a) - getTime(b)

RECURSIVE DecimalOf(_)
\* Number.prototype.toString of a non-negative integer, as characters
DecimalOf(n) ==
  IF n < 10 THEN <<DigitChar(n)>> ELSE Append(DecimalOf(n \div 10), DigitChar(n % 10))

\* an RRule (rrule library) with options freq, interval, count, until, dtstart:
\* count and until are NoLimit when the option is absent
NoLimit == -1
NoRecurrence ==
  [present |-> FALSE, freq |-> "WEEKLY", interval |-> 1, count |-> NoLimit,
   until |-> NoLimit, dtstart |-> 0]

\* minutes between two consecutive dates of a rule with interval 1
FreqPeriod(freq) == IF freq = "DAILY" THEN MinutesPerDay ELSE 7 * MinutesPerDay

\* the k-th date the rule generates (k = 0 is dtstart), and whether the rule
\* generates a k-th date at all
RuleDate(rule, k) == rule.dtstart + k * rule.interval * FreqPeriod(rule.freq)
RuleHas(rule, k) ==
  /\ rule.count = NoLimit \/ k < rule.count
  /\ rule.until = NoLimit \/ RuleDate(rule, k) <= rule.until

\* variant of BetweenFrom: the iterator accepts while i <= maxOccurrences
RECURSIVE BetweenFrom_OneMore(_, _, _, _, _, _)
BetweenFrom_OneMore(rule, after, before, maxOccurrences, k, dates) ==
  IF ~RuleHas(rule, k) THEN dates
  ELSE
    LET date == RuleDate(rule, k)
    IN  IF date < after
        THEN BetweenFrom_OneMore(rule, after, before, maxOccurrences, k + 1, dates)
        ELSE IF date > before THEN dates
        ELSE IF Len(dates) <= maxOccurrences
             THEN BetweenFrom_OneMore(rule, after, before, maxOccurrences, k + 1,
                                      Append(dates, date))
             ELSE dates

\* rrule.between(after, before, true, (date, i) => i < maxOccurrences): the
\* rule's dates from the k-th on; a date before `after` is passed over, the
\* iteration ends at the first date past `before` or refused by the iterator
RECURSIVE BetweenFrom(_, _, _, _, _, _)
BetweenFrom(rule, after, before, maxOccurrences, k, dates) ==
  IF ~RuleHas(rule, k) THEN dates
  ELSE
    LET date == RuleDate(rule, k)
    IN  IF date < after
        THEN BetweenFrom(rule, after, before, maxOccurrences, k + 1, dates)
        ELSE IF date > before THEN dates
        ELSE IF Len(dates) < maxOccurrences
             THEN BetweenFrom(rule, after, before, maxOccurrences, k + 1,
                              Append(dates, date))
             ELSE dates

\* RecurrenceExpander.eventIntersectsRange
eventIntersectsRange(event, range) ==
  ~(event.start > range.end \/ event.end < range.start)

\* variant of occurrenceOf: the occurrence keeps the parent's id
occurrenceOf_ParentId(event, startDate, eventDuration) ==
  [event EXCEPT
     !.start = startDate,
     !.end = newDate(getTime(startDate) + eventDuration)]

\* RecurrenceExpander.expandSingleEvent: the occurrence built for one date
occurrenceOf(event, startDate, eventDuration) ==
  [event EXCEPT
     !.id = event.id \o <<"_">> \o DecimalOf(getTime(startDate)),
     !.start = startDate,
     !.end = newDate(getTime(startDate) + eventDuration)]

\* RecurrenceExpander.expandSingleEvent (rrule.between does not throw for
\* valid dates, so the catch block is not entered)
expandSingleEvent(event, dateRange, maxOccurrences) ==
  IF ~event.recurrence.present
  THEN IF eventIntersectsRange(event, dateRange) THEN <<event>> ELSE <<>>
  ELSE
    LET eventDuration == differenceInMilliseconds(event.end, event.start)
        dates == BetweenFrom(event.recurrence, dateRange.start,
                             addDays(dateRange.end, 1), maxOccurrences, 0, <<>>)
        all == [i \in 1..Len(dates) |-> occurrenceOf(event, dates[i], eventDuration)]
    IN  SelectSeq(all, LAMBDA occurrence : eventIntersectsRange(occurrence, dateRange))

\* the rules of the model: daily or weekly, every one or two periods, with or
\* without COUNT, with or without an UNTIL eight days after dtstart
RulesFrom(dtstart) ==
  {NoRecurrence} \cup
  [present : {TRUE}, freq : {"DAILY", "WEEKLY"}, interval : {1, 2},
   count : {NoLimit} \cup 1..MaxCount,
   until : {NoLimit, addDays(dtstart, 8)}, dtstart : {dtstart}]

\* events starting on the first day at 00:00 or 12:00 or on the second day at
\* 12:00, lasting one hour or 25 hours
ExpandEvents ==
  {[id |-> <<"e", "v">>, start |-> st, end |-> st + dur, recurrence |-> rule] :
      <<st, dur>> \in {0, 720, 2160} \X {60, 1500}, rule \in UNION {RulesFrom(t) : t \in {0, 720, 2160}}}

ExpandRanges ==
  {[start |-> 0, end |-> addDays(0, 7)],
   [start |-> 0, end |-> addDays(0, 22)],
   [start |-> addDays(0, 1), end |-> addDays(0, 8)]}

\* RecurrenceExpander.expandRecurringEvents: the loop over the events
RECURSIVE ExpandedEventsFrom(_, _, _, _)
ExpandedEventsFrom(events, i, dateRange, maxOccurrences) ==
  IF i > Len(events) THEN <<>>
  ELSE expandSingleEvent(events[i], dateRange, maxOccurrences)
       \o ExpandedEventsFrom(events, i + 1, dateRange, maxOccurrences)

\* variant of expandRecurringEvents: the list is returned as the loop built it
expandRecurringEventsIn_Unsorted(events, dateRange, maxOccurrences) ==
  ExpandedEventsFrom(events, 1, dateRange, maxOccurrences)

\* RecurrenceExpander.expandRecurringEvents (the else branch is the first
\* branch of expandSingleEvent)
expandRecurringEventsIn(events, dateRange, maxOccurrences) ==
  SortByStart(ExpandedEventsFrom(events, 1, dateRange, maxOccurrences))

\* the events that follow the first in the list: none, or a single event on
\* the first day from 06:00 to 07:00
OtherEvents ==
  {<<>>, <<[id |-> <<"o">>, start |-> 360, end |-> 420, recurrence |-> NoRecurrence]>>}

\* the rule's dtstart is the event's start, as the parser builds it
ExpandInit ==
  /\ \E event \in ExpandEvents, dateRange \in ExpandRanges,
        maxOccurrences \in (0..MaxCount) \cup {DefaultMaxOccurrences} :
       /\ event.recurrence.present => event.recurrence.dtstart = event.start
       /\ \E others \in OtherEvents :
            expandArgs = [event |-> event, others |-> others, dateRange |-> dateRange,
                          maxOccurrences |-> maxOccurrences]
  /\ expandPc = "ready"
  /\ occurrences = <<>>
  /\ ProcIdle
  /\ SchedIdle
  /\ NormIdle
  /\ ParseIdle
  /\ FreeIdle
  /\ AltIdle
  /\ DataIdle
  /\ SessionIdle

ExpandSingleEvent ==
  /\ expandPc = "ready"
  /\ occurrences' = expandSingleEvent(expandArgs.event, expandArgs.dateRange,
                                      expandArgs.maxOccurrences)
  /\ expandPc' = "done"
  /\ UNCHANGED expandArgs
  /\ UNCHANGED <<procVars, schedVars, normVars, parseVars>>
  /\ UNCHANGED <<freeVars, altVars, dataVars, sessionVars>>

\* expandRecurringEvents on the list of the event and the others
ExpandRecurringEvents ==
  /\ expandPc = "ready"
  /\ occurrences' = expandRecurringEventsIn(<<expandArgs.event>> \o expandArgs.others,
                                            expandArgs.dateRange,
                                            expandArgs.maxOccurrences)
  /\ expandPc' = "listed"
  /\ UNCHANGED expandArgs
  /\ UNCHANGED <<procVars, schedVars, normVars, parseVars>>
  /\ UNCHANGED <<freeVars, altVars, dataVars, sessionVars>>

ExpandNext == ExpandSingleEvent \/ ExpandRecurringEvents

SpecExpand == ExpandInit /\ [][ExpandNext]_vars

\* ------------------------------------------------------- expander claims
Expanded == expandPc = "done" /\ expandArgs.event.recurrence.present

\* the dates of the rule that lie in [after, before], however many
DatesWithin(rule, after, before) ==
  {k \in 0..((before - rule.dtstart) \div MinutesPerDay + 1) :
      /\ k >= 0
      /\ RuleHas(rule, k)
      /\ RuleDate(rule, k) >= after
      /\ RuleDate(rule, k) <= before}

\* C16: expanding a recurring event returns at most maxOccurrences
\* occurrences, whatever the rule and the window.
C16_AtMostMaxOccurrences ==
  Expanded => Len(occurrences) <= expandArgs.maxOccurrences

\* C16 witness: a rule without COUNT and UNTIL that has more dates in the
\* window than maxOccurrences, cut to exactly maxOccurrences occurrences.
C16_Witness ==
  /\ Expanded
  /\ expandArgs.event.recurrence.count = NoLimit
  /\ expandArgs.event.recurrence.until = NoLimit
  /\ expandArgs.maxOccurrences >= 2
  /\ Cardinality(DatesWithin(expandArgs.event.recurrence, expandArgs.dateRange.start,
                             expandArgs.dateRange.end)) > expandArgs.maxOccurrences
  /\ Len(occurrences) = expandArgs.maxOccurrences

\* C17: a weekly rule with COUNT = n (interval 1, no UNTIL) whose first start
\* s and last start s + 7(n-1) days lie in the window, expanded with
\* maxOccurrences >= n, gives exactly n occurrences, the k-th starting at
\* s + 7(k-1) days, lasting as long as the parent and carrying the parent id
\* followed by "_" and its start in milliseconds; the ids differ pairwise.
C17_WeeklyCountExpansion ==
  LET event == expandArgs.event
      rule == event.recurrence
      range == expandArgs.dateRange
      n == rule.count
      s == event.start
  IN  (/\ Expanded
       /\ rule.freq = "WEEKLY" /\ rule.interval = 1 /\ rule.until = NoLimit
       /\ n >= 1 /\ expandArgs.maxOccurrences >= n
       /\ range.start <= s /\ s + 7 * (n - 1) * MinutesPerDay <= range.end)
      => /\ Len(occurrences) = n
         /\ \A k \in 1..Len(occurrences) :
              /\ occurrences[k].start = s + 7 * (k - 1) * MinutesPerDay
              /\ occurrences[k].end - occurrences[k].start = event.end - event.start
              /\ occurrences[k].id
                   = event.id \o <<"_">> \o DecimalOf(occurrences[k].start * MsPerMinute)
         /\ \A j, k \in 1..Len(occurrences) :
              j # k => occurrences[j].id # occurrences[k].id

\* C17 witness: COUNT = 3 from the first day at 12:00, expanded over 22 days
\* with the default maxOccurrences into three one-hour occurrences.
C17_Witness ==
  /\ Expanded
  /\ expandArgs.event.recurrence.freq = "WEEKLY"
  /\ expandArgs.event.recurrence.interval = 1
  /\ expandArgs.event.recurrence.until = NoLimit
  /\ expandArgs.event.recurrence.count = 3
  /\ expandArgs.event.start = 720
  /\ expandArgs.event.end = 780
  /\ expandArgs.maxOccurrences = DefaultMaxOccurrences
  /\ Len(occurrences) = 3
  /\ occurrences[3].start = 720 + 14 * MinutesPerDay

\* ------------------------------------------------ timezone normalization
MaxPasses == 2

\* zones Intl.DateTimeFormat accepts; any other name makes it throw a RangeError
KnownZones == {"UTC", "America/New_York", "Europe/London"}

\* Intl.DateTimeFormat("en-US", {timeZone, hour12: false, ...}).formatToParts
\* followed by TimezoneUtils.partsToDate: the wall-clock reading of the instant
\* in the zone, rebuilt as a Date of the process.  Where the runtime renders
\* the hour of midnight as "24" (hour24), new Date(y, m, d, 24, ...) is the
\* same time one day later.
partsToDate(date, timezone, hour24) ==
  LET wall == date + ZoneOffset(timezone)
  IN  IF hour24 /\ getHours(wall) = 0 THEN wall + MinutesPerDay ELSE wall

\* TimezoneUtils.toUTC
toUTC(date, timezone, hour24) ==
  IF timezone = "" \/ timezone = "UTC" THEN date
  ELSE IF timezone \notin KnownZones THEN date
  ELSE
    LET utcDate == partsToDate(date, "UTC", hour24)
        localDate == partsToDate(date, timezone, hour24)
        offset == getTime(utcDate) - getTime(localDate)
    IN  newDate(getTime(date) + offset)

\* variant of normalizeTimezones: the events keep their zone
normalizeTimezones_KeepsZone(events, hour24) ==
  [i \in 1..Len(events) |->
     [events[i] EXCEPT
        !.start = toUTC(events[i].start, events[i].timezone, hour24),
        !.end = toUTC(events[i].end, events[i].timezone, hour24)]]

\* CalendarProcessor.normalizeTimezones on the calendar's events (toUTC
\* catches what it throws, so the catch block here is not entered)
normalizeTimezones(events, hour24) ==
  [i \in 1..Len(events) |->
     [events[i] EXCEPT
        !.start = toUTC(events[i].start, events[i].timezone, hour24),
        !.end = toUTC(events[i].end, events[i].timezone, hour24),
        !.timezone = "UTC"]]

\* one-hour events at 00:00, 05:00 or 12:00 of the second day, in a known
\* zone, an unknown one, or none
ZonedEvents ==
  {[start |-> st, end |-> st + 60, timezone |-> tz] :
      st \in {1440, 1740, 2160},
      tz \in KnownZones \cup {"Mars/Phobos", ""}}

NormInit ==
  /\ \E events \in SeqsUpTo(ZonedEvents, 2), hour24 \in BOOLEAN :
       /\ normInput = [events |-> events, hour24 |-> hour24]
       /\ normCalendar = events
  /\ normPasses = 0
  /\ ProcIdle
  /\ SchedIdle
  /\ ExpandIdle
  /\ ParseIdle
  /\ FreeIdle
  /\ AltIdle
  /\ DataIdle
  /\ SessionIdle

\* normalizeTimezones applied to the calendar as it is now
NormalizeTimezones ==
  /\ normPasses < MaxPasses
  /\ Len(normCalendar) > 0
  /\ normCalendar' = normalizeTimezones(normCalendar, normInput.hour24)
  /\ normPasses' = normPasses + 1
  /\ UNCHANGED normInput
  /\ UNCHANGED <<procVars, schedVars, expandVars, parseVars>>
  /\ UNCHANGED <<freeVars, altVars, dataVars, sessionVars>>

NormNext == NormalizeTimezones

SpecNormalize == NormInit /\ [][NormNext]_vars

\* ---------------------------------------------------- normalizer claims
Instants(events) == [i \in 1..Len(events) |-> <<events[i].start, events[i].end>>]

\* C18: normalization leaves the start and end of an event whose zone is
\* "UTC" as they are, and normalizing again gives the same starts and ends as
\* normalizing once.
C18_NormalizationIdempotent ==
  normPasses >= 1 =>
    /\ \A i \in 1..Len(normInput.events) :
         normInput.events[i].timezone = "UTC"
           => /\ normCalendar[i].start = normInput.events[i].start
              /\ normCalendar[i].end = normInput.events[i].end
    /\ Instants(normCalendar)
         = Instants(normalizeTimezones(normInput.events, normInput.hour24))

\* C18 witness: after the second pass, a calendar with an event given in
\* "UTC" and an event of another zone that the first pass moved.
C18_Witness ==
  /\ normPasses = 2
  /\ \E i, j \in 1..Len(normInput.events) :
       /\ normInput.events[i].timezone = "UTC"
       /\ normInput.events[j].timezone = "America/New_York"
       /\ normCalendar[j].start # normInput.events[j].start

\* --------------------------------------------------------------- ICalParser
\* A content line NAME[;TZID=zone]:VALUE is [name, tzid, value], tzid = ""
\* when the line has no parameter; value is a sequence of characters, for an
\* RRULE line the sequence of its KEY=VALUE parts, for a TZID line the zone
\* name as a sequence of one element.  BEGIN:X and END:X
\* are lines named "BEGIN" and "END" whose value is the component type.
Line(name, tzid, value) == [name |-> name, tzid |-> tzid, value |-> value]

PropertyNames == {"UID", "DTSTART", "DTEND", "RRULE", "TZID", "STATUS"}

\* ICalComponent.properties: per name the values stored so far; one value is
\* a string, several are an array, none is undefined
NoProperties == [n \in PropertyNames |-> <<>>]
IsArray(stored) == Len(stored) >= 2
\* JavaScript truthiness of a stored property: undefined and "" are falsy
Truthy(stored) ==
  \/ IsArray(stored)
  \/ Len(stored) = 1 /\ (stored[1].tzid # "" \/ stored[1].value # <<>>)

NoComponent == [open |-> FALSE, type |-> "", properties |-> NoProperties]

\* ICalParser.parseComponents: the loop over the lines from the i-th on
RECURSIVE ParseComponentsFrom(_, _, _, _)
ParseComponentsFrom(lines, i, currentComponent, components) ==
  IF i > Len(lines) THEN components
  ELSE
    LET line == lines[i]
    IN  IF line.name = "BEGIN"
        THEN ParseComponentsFrom(lines, i + 1,
               [open |-> TRUE, type |-> line.value, properties |-> NoProperties],
               components)
        ELSE IF line.name = "END"
        THEN IF currentComponent.open
             THEN ParseComponentsFrom(lines, i + 1, NoComponent,
                                      Append(components, currentComponent))
             ELSE ParseComponentsFrom(lines, i + 1, currentComponent, components)
        ELSE IF currentComponent.open /\ line.name \in PropertyNames
        THEN
          LET existing == currentComponent.properties[line.name]
              fullPropertyValue == [tzid |-> line.tzid, value |-> line.value]
              stored == IF Truthy(existing) THEN Append(existing, fullPropertyValue)
                        ELSE <<fullPropertyValue>>
          IN  ParseComponentsFrom(lines, i + 1,
                [currentComponent EXCEPT !.properties[line.name] = stored],
                components)
        ELSE ParseComponentsFrom(lines, i + 1, currentComponent, components)

parseComponents(lines) == ParseComponentsFrom(lines, 1, NoComponent, <<>>)

\* parseInt of a sequence of characters: an optional "-" and the leading
\* digits; NaN when there is no digit
RECURSIVE LeadingDigits(_)
LeadingDigits(chars) ==
  IF chars = <<>> \/ chars[1] \notin Digits THEN <<>>
  ELSE <<chars[1]>> \o LeadingDigits(Tail(chars))

parseInt(chars) ==
  LET negative == chars # <<>> /\ chars[1] = "-"
      digits == LeadingDigits(IF negative THEN Tail(chars) ELSE chars)
  IN  IF digits = <<>> THEN [nan |-> TRUE, n |-> 0]
      ELSE [nan |-> FALSE, n |-> IF negative THEN 0 - NumberOf(digits) ELSE NumberOf(digits)]

\* days from 1970-01-01 to the first of a month (month 1..12) of the
\* proleptic Gregorian calendar
DaysFromCivil(year, month) ==
  LET y == IF month <= 2 THEN year - 1 ELSE year
      era == y \div 400
      yoe == y - era * 400
      doy == (153 * (IF month > 2 THEN month - 3 ELSE month + 9) + 2) \div 5
      doe == yoe * 365 + yoe \div 4 - yoe \div 100 + doy
  IN  era * 146097 + doe - 719468

\* a Date: valid with its instant t, or Invalid Date
InvalidDate == [valid |-> FALSE, t |-> 0]
ValidDate(t) == [valid |-> TRUE, t |-> t]

\* new Date(year, month, day, hour, minute, second) in the zone of the
\* process: fields out of range carry over, a NaN field gives Invalid Date;
\* the instant is in minutes since 2023-12-01T00:00 (seconds are dropped)
DateFromFields(year, month, day, hour, minute, second) ==
  IF year.nan \/ month.nan \/ day.nan \/ hour.nan \/ minute.nan \/ second.nan
  THEN InvalidDate
  ELSE
    LET months == year.n * 12 + month.n
        days == DaysFromCivil(months \div 12, (months % 12) + 1) + (day.n - 1)
                  - DaysFromCivil(2023, 12)
    IN  ValidDate(days * MinutesPerDay + hour.n * 60 + minute.n + second.n \div 60)

\* String.prototype: substring(from, to) with 0-based indices, the part after
\* the last ":", endsWith("Z"), includes("T"), split("T")
substring(chars, from, to) == SubSeq(chars, from + 1, Min(to, Len(chars)))
RECURSIVE AfterLastColon(_)
AfterLastColon(chars) ==
  IF \E i \in 1..Len(chars) : chars[i] = ":"
  THEN AfterLastColon(Tail(chars))
  ELSE chars
endsWithZ(chars) == chars # <<>> /\ chars[Len(chars)] = "Z"
FirstT(chars) == CHOOSE i \in 1..Len(chars) : chars[i] = "T" /\ \A j \in 1..(i - 1) : chars[j] # "T"
\* the first two pieces of split("T"); the second is undefined when a second
\* "T" follows directly, which the model's strings do not have
SplitT(chars) ==
  LET i == FirstT(chars)
      rest == SubSeq(chars, i + 1, Len(chars))
      stop == IF \E j \in 1..Len(rest) : rest[j] = "T"
              THEN (CHOOSE j \in 1..Len(rest) : rest[j] = "T" /\ \A k \in 1..(j - 1) : rest[k] # "T") - 1
              ELSE Len(rest)
  IN  <<SubSeq(chars, 1, i - 1), SubSeq(rest, 1, stop)>>

\* date-fns parseISO for the strings that reach it in this model: eight
\* digits are a calendar date at 00:00 of the process's zone, anything else
\* here is invalid
parseISO(chars) ==
  IF Len(chars) = 8 /\ \A i \in 1..8 : chars[i] \in Digits
  THEN DateFromFields(parseInt(substring(chars, 0, 4)),
                      [nan |-> FALSE, n |-> parseInt(substring(chars, 4, 6)).n - 1],
                      parseInt(substring(chars, 6, 8)),
                      [nan |-> FALSE, n |-> 0], [nan |-> FALSE, n |-> 0],
                      [nan |-> FALSE, n |-> 0])
  ELSE InvalidDate

Throws == [kind |-> "throw"]
Returns(v) == [kind |-> "return", value |-> v]

\* ICalParser.parseDateTime on a stored property value (the process's zone
\* has offset 0, so the "Z" branch subtracts nothing)
parseDateTime(stored) ==
  LET afterColon == AfterLastColon(stored.value)
      cleanDateTime == IF endsWithZ(afterColon)
                       THEN SubSeq(afterColon, 1, Len(afterColon) - 1)
                       ELSE afterColon
  IN  IF Len(cleanDateTime) = 15 /\ \E i \in 1..15 : cleanDateTime[i] = "T"
      THEN
        LET datePart == SplitT(cleanDateTime)[1]
            timePart == SplitT(cleanDateTime)[2]
            month == parseInt(substring(datePart, 4, 6))
        IN  Returns(DateFromFields(
                      parseInt(substring(datePart, 0, 4)),
                      [month EXCEPT !.n = @ - 1],
                      parseInt(substring(datePart, 6, 8)),
                      parseInt(substring(timePart, 0, 2)),
                      parseInt(substring(timePart, 2, 4)),
                      parseInt(substring(timePart, 4, 6))))
      ELSE IF parseISO(cleanDateTime).valid THEN Returns(parseISO(cleanDateTime))
      ELSE Throws

\* rrule's Frequency enumeration (RRule.YEARLY .. RRule.SECONDLY)
Frequency ==
  [YEARLY |-> 0, MONTHLY |-> 1, WEEKLY |-> 2, DAILY |-> 3, HOURLY |-> 4,
   MINUTELY |-> 5, SECONDLY |-> 6]

\* ICalParser.mapFrequency: freqMap[freq] || RRule.WEEKLY, where a missing
\* key is undefined and both undefined and 0 are falsy
mapFrequency(freq) ==
  IF freq \in DOMAIN Frequency /\ Frequency[freq] # 0 THEN Frequency[freq]
  ELSE Frequency["WEEKLY"]

\* the options parseRecurrenceRule collects: freq, interval and count are
\* <<>> while unset, until is <<>> or <<date>>
NoOptions == [freq |-> <<>>, interval |-> <<>>, count |-> <<>>, until |-> <<>>]

\* ICalParser.parseRecurrenceRule: the loop over the KEY=VALUE parts from the
\* i-th on; it throws when the UNTIL value makes parseDateTime throw
RECURSIVE RuleOptionsFrom(_, _, _)
RuleOptionsFrom(parts, i, options) ==
  IF i > Len(parts) THEN Returns(options)
  ELSE
    LET key == parts[i].key
        value == parts[i].value
    IN  CASE key = "FREQ" ->
               RuleOptionsFrom(parts, i + 1, [options EXCEPT !.freq = <<mapFrequency(value)>>])
          [] key = "INTERVAL" ->
               RuleOptionsFrom(parts, i + 1, [options EXCEPT !.interval = <<parseInt(value).n>>])
          [] key = "COUNT" ->
               RuleOptionsFrom(parts, i + 1, [options EXCEPT !.count = <<parseInt(value).n>>])
          [] key = "UNTIL" ->
               LET until == parseDateTime([tzid |-> "", value |-> value])
               IN  IF until.kind = "throw" THEN Throws
                   ELSE RuleOptionsFrom(parts, i + 1, [options EXCEPT !.until = <<until.value>>])
          [] OTHER -> RuleOptionsFrom(parts, i + 1, options)

\* new RRule(options): an unset freq defaults to YEARLY, an unset interval to 1
NoRule ==
  [present |-> FALSE, freq |-> 0, interval |-> 1, count |-> <<>>, until |-> <<>>,
   dtstart |-> InvalidDate]
newRRule(options, dtstart) ==
  [present |-> TRUE,
   freq |-> IF options.freq = <<>> THEN Frequency["YEARLY"] ELSE options.freq[1],
   interval |-> IF options.interval = <<>> THEN 1 ELSE options.interval[1],
   count |-> options.count,
   until |-> options.until,
   dtstart |-> dtstart]

\* rruleStr.includes("FREQ=") on the parts of a rule string: some part's key
\* ends in FREQ
includesFREQ(parts) == \E i \in 1..Len(parts) : parts[i].key \in {"FREQ", "X-FREQ"}

\* the RRULE branch of processEvent: an array of rule strings has no element
\* equal to "FREQ=", a throw of parseRecurrenceRule is caught
recurrenceOf(stored, startDate) ==
  IF ~Truthy(stored) \/ IsArray(stored) THEN NoRule
  ELSE IF ~includesFREQ(stored[1].value) THEN NoRule
  ELSE LET options == RuleOptionsFrom(stored[1].value, 1, NoOptions)
       IN  IF options.kind = "throw" THEN NoRule
           ELSE newRRule(options.value, startDate)

\* ICalParser.extractEventTimezone on a stored string: "" stands for null
extractEventTimezone(stored) ==
  IF endsWithZ(stored.value) THEN "UTC" ELSE stored.tzid

\* Date arithmetic new Date(date.getTime() + 60 * 60 * 1000)
plusOneHour(date) == IF date.valid THEN ValidDate(date.t + 60) ELSE InvalidDate

\* ICalParser.parseStatus on the stored STATUS (a value is a sequence of one
\* word, already in upper case)
parseStatus(stored) ==
  IF ~Truthy(stored) THEN "confirmed"
  ELSE IF stored[1].value = <<"TENTATIVE">> THEN "tentative"
  ELSE IF stored[1].value = <<"CANCELLED">> THEN "cancelled"
  ELSE "confirmed"

\* ICalParser.processEvent: the event, or a throw (ICalParseError for a
\* missing UID or DTSTART or a date parseDateTime refuses, TypeError for a
\* DTSTART or DTEND that is an array and has no endsWith, or a STATUS that is
\* an array and has no toUpperCase)
processEvent(props) ==
  LET uid == props["UID"]
      dtstart == props["DTSTART"]
      dtend == props["DTEND"]
  IN  IF ~Truthy(uid) \/ ~Truthy(dtstart) THEN Throws
      ELSE IF IsArray(dtstart) THEN Throws
      ELSE
        LET startDate == parseDateTime(dtstart[1])
            endDate == IF Truthy(dtend)
                       THEN IF IsArray(dtend) THEN Throws ELSE parseDateTime(dtend[1])
                       ELSE IF startDate.kind = "throw" THEN Throws
                       ELSE Returns(plusOneHour(startDate.value))
            timezone == extractEventTimezone(dtstart[1])
        IN  IF startDate.kind = "throw" \/ endDate.kind = "throw" THEN Throws
            ELSE IF IsArray(props["STATUS"]) THEN Throws
            ELSE Returns([id |-> uid[1].value,
                          start |-> startDate.value,
                          end |-> endDate.value,
                          timezone |-> IF timezone = "" THEN "UTC" ELSE timezone,
                          recurrence |-> recurrenceOf(props["RRULE"], startDate.value),
                          status |-> parseStatus(props["STATUS"])])

\* ICalParser.extractEvents: the loop over the components from the i-th on;
\* a throw of processEvent is caught and the event left out
RECURSIVE ExtractEventsFrom(_, _, _)
ExtractEventsFrom(components, i, events) ==
  IF i > Len(components) THEN events
  ELSE IF components[i].type # "VEVENT" THEN ExtractEventsFrom(components, i + 1, events)
  ELSE LET event == processEvent(components[i].properties)
       IN  ExtractEventsFrom(components, i + 1,
             IF event.kind = "throw" THEN events ELSE Append(events, event.value))

extractEvents(components) == ExtractEventsFrom(components, 1, <<>>)

\* ICalParser.extractTimezone: the zone ("" for null), or a TypeError when it
\* reaches a VEVENT whose DTSTART is an array
RECURSIVE EventTimezoneFrom(_, _)
EventTimezoneFrom(components, i) ==
  IF i > Len(components) THEN Returns("")
  ELSE IF components[i].type # "VEVENT" \/ ~Truthy(components[i].properties["DTSTART"])
  THEN EventTimezoneFrom(components, i + 1)
  ELSE IF IsArray(components[i].properties["DTSTART"]) THEN Throws
  ELSE LET tzid == extractEventTimezone(components[i].properties["DTSTART"][1])
       IN  IF tzid # "" /\ tzid # "UTC" THEN Returns(tzid)
           ELSE EventTimezoneFrom(components, i + 1)

extractTimezone(components) ==
  LET vtimezones == {i \in 1..Len(components) : components[i].type = "VTIMEZONE"}
      first == CHOOSE i \in vtimezones : \A j \in vtimezones : i <= j
  IN  IF vtimezones # {} /\ Truthy(components[first].properties["TZID"])
      THEN Returns(components[first].properties["TZID"][1].value[1])
      ELSE EventTimezoneFrom(components, 1)

\* content.includes("BEGIN:VCALENDAR")
hasMarker(lines) ==
  \E i \in 1..Len(lines) : lines[i].name = "BEGIN" /\ lines[i].value = "VCALENDAR"

\* ICalParser.parseICalContent: the events of the calendar it returns, or the
\* ICalParseError it throws (its own, or the one wrapping a TypeError)
parseICalContent(lines) ==
  IF ~hasMarker(lines) THEN Throws
  ELSE LET components == parseComponents(lines)
           events == extractEvents(components)
       IN  IF extractTimezone(components).kind = "throw" THEN Throws
           ELSE Returns(events)

\* ---------------------------------------------------- parser state machine
\* at most MaxBlocks VEVENT blocks in a content
MaxBlocks == 2

TwoDigits(n) == IF n < 10 THEN <<"0">> \o DecimalOf(n) ELSE DecimalOf(n)
\* "202312ddThh0000" for a day and an hour of December 2023
DateTimeChars(day, hour) ==
  <<"2", "0", "2", "3", "1", "2">> \o TwoDigits(day) \o <<"T">> \o TwoDigits(hour)
    \o <<"0", "0", "0", "0">>
InvalidDateChars == <<"i", "n", "v", "a", "l", "i", "d", "-", "d", "a", "t", "e">>
\* fifteen characters with a "T" whose minutes and seconds are not digits
GarbledChars(day) ==
  <<"2", "0", "2", "3", "1", "2">> \o TwoDigits(day) \o <<"T">> \o <<"1", "2", "X", "X", "X", "X">>

\* the shapes of a VEVENT block: what its UID, DTSTART and DTEND lines are
BlockShapes ==
  [uid : {"ok"}, dtstart : {"utc", "tzid", "date", "none", "invalid", "garbled", "twice"},
   dtend : {"none"}]
  \cup [uid : {"none", "empty"}, dtstart : {"utc"}, dtend : {"none"}]
  \cup [uid : {"ok"}, dtstart : {"utc"}, dtend : {"utc", "invalid"}]

\* the lines of the k-th block of a content: its UID is the letter of its
\* position, it starts on the k-th of December at 12:00
UidChars(k) == <<<<"a">>, <<"b">>, <<"c">>, <<"d">>>>[k]
BlockLines(shape, k, rules) ==
  <<Line("BEGIN", "", "VEVENT")>>
  \o (CASE shape.uid = "ok" -> <<Line("UID", "", UidChars(k))>>
        [] shape.uid = "empty" -> <<Line("UID", "", <<>>)>>
        [] OTHER -> <<>>)
  \o (CASE shape.dtstart = "utc" -> <<Line("DTSTART", "", DateTimeChars(k, 12) \o <<"Z">>)>>
        [] shape.dtstart = "tzid" ->
             <<Line("DTSTART", "America/New_York", DateTimeChars(k, 12))>>
        [] shape.dtstart = "date" -> <<Line("DTSTART", "", SubSeq(DateTimeChars(k, 12), 1, 8))>>
        [] shape.dtstart = "invalid" -> <<Line("DTSTART", "", InvalidDateChars)>>
        [] shape.dtstart = "garbled" -> <<Line("DTSTART", "", GarbledChars(k))>>
        [] shape.dtstart = "twice" ->
             <<Line("DTSTART", "", DateTimeChars(k, 12) \o <<"Z">>),
               Line("DTSTART", "", DateTimeChars(k, 14) \o <<"Z">>)>>
        [] OTHER -> <<>>)
  \o (CASE shape.dtend = "utc" -> <<Line("DTEND", "", DateTimeChars(k, 15) \o <<"Z">>)>>
        [] shape.dtend = "invalid" -> <<Line("DTEND", "", InvalidDateChars)>>
        [] OTHER -> <<>>)
  \o [i \in 1..Len(rules) |-> Line("RRULE", "", rules[i])]
  \o <<Line("END", "", "VEVENT")>>

\* a content: the container marker or not, a VTIMEZONE block or not, then
\* the blocks
RECURSIVE BlocksLines(_, _)
BlocksLines(shapes, k) ==
  IF k > Len(shapes) THEN <<>>
  ELSE BlockLines(shapes[k], k, <<>>) \o BlocksLines(shapes, k + 1)
ContentLines(marker, vtimezone, blockLines) ==
  (IF marker THEN <<Line("BEGIN", "", "VCALENDAR")>> ELSE <<>>)
  \o (IF vtimezone
      THEN <<Line("BEGIN", "", "VTIMEZONE"), Line("TZID", "", <<"America/New_York">>),
             Line("END", "", "VTIMEZONE")>>
      ELSE <<>>)
  \o blockLines
  \o <<Line("END", "", "VCALENDAR")>>

\* rule strings, as the sequence of their KEY=VALUE parts
Part(key, value) == [key |-> key, value |-> value]
FrequencyTokens ==
  {"YEARLY", "MONTHLY", "WEEKLY", "DAILY", "HOURLY", "MINUTELY", "SECONDLY", "BOGUS", "daily"}
RuleStrings ==
  {<<Part("FREQ", f)>> : f \in FrequencyTokens}
  \cup {<<Part("FREQ", f), Part("COUNT", <<"2">>)>> : f \in {"WEEKLY", "DAILY"}}
  \cup {<<Part("INTERVAL", <<"2">>), Part("FREQ", "MONTHLY")>>,
        <<Part("COUNT", <<"2">>)>>,
        <<Part("X-FREQ", "DAILY")>>,
        <<Part("FREQ", "DAILY"), Part("UNTIL", DateTimeChars(20, 12) \o <<"Z">>)>>,
        <<Part("FREQ", "DAILY"), Part("UNTIL", InvalidDateChars)>>}

\* the lines of a k-th block that holds an alarm, before or after its UID and
\* DTSTART lines, and possibly a DTEND line behind the alarm
AlarmLines ==
  <<Line("BEGIN", "", "VALARM"), Line("TRIGGER", "", <<"-", "P", "T", "1", "5", "M">>),
    Line("END", "", "VALARM")>>
AlarmBlockLines(k, alarmFirst, trailing) ==
  <<Line("BEGIN", "", "VEVENT")>>
  \o (IF alarmFirst THEN AlarmLines ELSE <<>>)
  \o <<Line("UID", "", UidChars(k)), Line("DTSTART", "", DateTimeChars(k, 12) \o <<"Z">>)>>
  \o (IF alarmFirst THEN <<>> ELSE AlarmLines)
  \o (IF trailing THEN <<Line("DTEND", "", DateTimeChars(k, 15) \o <<"Z">>)>> ELSE <<>>)
  \o <<Line("END", "", "VEVENT")>>

ParseInit ==
  /\ \/ \E marker \in BOOLEAN, vtimezone \in BOOLEAN,
           shapes \in SeqsUpTo(BlockShapes, MaxBlocks) :
          icalLines = ContentLines(marker, vtimezone, BlocksLines(shapes, 1))
     \/ \E alarmFirst \in BOOLEAN, trailing \in BOOLEAN, plain \in BOOLEAN :
          icalLines = ContentLines(TRUE, FALSE,
                        AlarmBlockLines(1, alarmFirst, trailing)
                        \o (IF plain
                            THEN BlockLines([uid |-> "ok", dtstart |-> "utc",
                                             dtend |-> "none"], 2, <<>>)
                            ELSE <<>>))
     \/ \E rules \in SeqsUpTo(RuleStrings, 2) :
          icalLines = ContentLines(TRUE, FALSE,
                        BlockLines([uid |-> "ok", dtstart |-> "utc", dtend |-> "none"],
                                   1, rules))
  /\ parsePc = "ready"
  /\ parsed = <<>>
  /\ ProcIdle
  /\ SchedIdle
  /\ ExpandIdle
  /\ NormIdle
  /\ FreeIdle
  /\ AltIdle
  /\ DataIdle
  /\ SessionIdle

\* parseICalContent returns the calendar
ParseICalContentReturns ==
  /\ parsePc = "ready"
  /\ parseICalContent(icalLines).kind = "return"
  /\ parsePc' = "returned"
  /\ parsed' = parseICalContent(icalLines).value
  /\ UNCHANGED <<icalLines, procVars, schedVars, expandVars, normVars>>
  /\ UNCHANGED <<freeVars, altVars, dataVars, sessionVars>>

\* parseICalContent throws ICalParseError
ParseICalContentThrows ==
  /\ parsePc = "ready"
  /\ parseICalContent(icalLines).kind = "throw"
  /\ parsePc' = "failed"
  /\ UNCHANGED <<icalLines, parsed, procVars, schedVars, expandVars, normVars>>
  /\ UNCHANGED <<freeVars, altVars, dataVars, sessionVars>>

ParseNext == ParseICalContentReturns \/ ParseICalContentThrows

SpecParse == ParseInit /\ [][ParseNext]_vars

\* ------------------------------------------------------ claims on the parser
\* the VEVENT blocks of the content, in input order
EventBlocks == SelectSeq(parseComponents(icalLines), LAMBDA c : c.type = "VEVENT")

\* YYYYMMDD or YYYYMMDDTHHMMSS with an optional final Z, all fields digits
IsDateText(chars) ==
  LET text == IF endsWithZ(chars) THEN SubSeq(chars, 1, Len(chars) - 1) ELSE chars
  IN  \/ Len(chars) = 8 /\ \A i \in 1..8 : chars[i] \in Digits
      \/ /\ Len(text) = 15
         /\ text[9] = "T"
         /\ \A i \in (1..15) \ {9} : text[i] \in Digits

\* a block with an id, one start line holding a date, and an end line, if
\* any, holding a date
WellFormedBlock(c) ==
  /\ Len(c.properties["UID"]) = 1 /\ c.properties["UID"][1].value # <<>>
  /\ Len(c.properties["DTSTART"]) = 1 /\ IsDateText(c.properties["DTSTART"][1].value)
  /\ \/ c.properties["DTEND"] = <<>>
     \/ Len(c.properties["DTEND"]) = 1 /\ IsDateText(c.properties["DTEND"][1].value)

IdsOf(events) == [i \in 1..Len(events) |-> events[i].id]
WellFormedIds ==
  LET blocks == SelectSeq(EventBlocks, WellFormedBlock)
  IN  [i \in 1..Len(blocks) |-> blocks[i].properties["UID"][1].value]

\* a block whose start text has the length of a date-time but is none, or
\* whose start line is written twice
GarbledBlock(c) ==
  /\ Len(c.properties["DTSTART"]) = 1
  /\ ~IsDateText(c.properties["DTSTART"][1].value)
  /\ parseDateTime(c.properties["DTSTART"][1]).kind = "return"
RepeatedStart(c) == Len(c.properties["DTSTART"]) >= 2

\* C19: for a content with the container marker the parse returns exactly the
\* well-formed event blocks, in input order, skipping the blocks with a
\* missing id, a missing start or an unparseable date; the parse fails only
\* when the container marker is absent.
C19_PerEventRecovery ==
  /\ parsePc = "failed" => ~hasMarker(icalLines)
  /\ parsePc = "returned" => IdsOf(parsed) = WellFormedIds

\* C19, restricted: the same when no block has a start text of fifteen
\* characters that is no date-time and no block has two start lines.
C19_RecoveryWithoutGarbledOrRepeatedStart ==
  (\A i \in 1..Len(EventBlocks) :
      ~GarbledBlock(EventBlocks[i]) /\ ~RepeatedStart(EventBlocks[i]))
    => C19_PerEventRecovery

\* the rule string of a block with exactly one RRULE line, its frequency
\* token ("" when it has no FREQ part) and whether an UNTIL part holds no date
RuleString(c) == c.properties["RRULE"][1].value
FrequencyToken(parts) ==
  IF \E i \in 1..Len(parts) : parts[i].key = "FREQ"
  THEN parts[CHOOSE i \in 1..Len(parts) : parts[i].key = "FREQ"].value
  ELSE ""
RuleParsingFails(parts) ==
  \E i \in 1..Len(parts) : parts[i].key = "UNTIL" /\ ~IsDateText(parts[i].value)
RuleBlocks == SelectSeq(EventBlocks, LAMBDA c : Len(c.properties["RRULE"]) = 1)

\* what C20 states of the event parsed from block c
RuleFollowsToken(c) ==
  LET token == FrequencyToken(RuleString(c))
      kept == token \in DOMAIN Frequency /\ ~RuleParsingFails(RuleString(c))
  IN  \E i \in 1..Len(parsed) :
        /\ parsed[i].id = c.properties["UID"][1].value
        /\ parsed[i].recurrence.present = kept
        /\ kept => parsed[i].recurrence.freq = Frequency[token]

\* C20: an event has a recurrence rule exactly when its rule string carries
\* one of the seven frequency tokens and parses, the rule's frequency is then
\* the one the token names; otherwise the event is kept without a rule.
C20_RuleFrequencyFromToken ==
  parsePc = "returned" =>
    \A i \in 1..Len(RuleBlocks) : RuleFollowsToken(RuleBlocks[i])

\* C20, restricted: the same for rule strings whose frequency token is one of
\* the seven other than YEARLY, or that have no part whose key ends in FREQ.
C20_RuleFrequencyExceptYearlyAndUnknown ==
  parsePc = "returned" =>
    \A i \in 1..Len(RuleBlocks) :
      (\/ FrequencyToken(RuleString(RuleBlocks[i])) \in DOMAIN Frequency \ {"YEARLY"}
       \/ ~includesFREQ(RuleString(RuleBlocks[i])))
        => RuleFollowsToken(RuleBlocks[i])

\* ------------------------------------------------------- findFreeTimeSlots
\* variant of GapSlots: a candidate may run up to 15 minutes into the limit
RECURSIVE GapSlots_Late(_, _, _, _, _)
GapSlots_Late(currentTime, limit, dateRange, durationMinutes, slots) ==
  IF currentTime + durationMinutes <= limit + 15
  THEN GapSlots_Late(currentTime + 15, limit, dateRange, durationMinutes,
                IF currentTime >= dateRange.start
                   /\ currentTime + durationMinutes <= dateRange.end
                THEN Append(slots, currentTime) ELSE slots)
  ELSE [currentTime |-> currentTime, slots |-> slots]

\* the while loops of findFreeTimeSlots: candidates every 15 minutes while
\* currentTime + duration <= limit, pushed when inside the range
RECURSIVE GapSlots(_, _, _, _, _)
GapSlots(currentTime, limit, dateRange, durationMinutes, slots) ==
  IF currentTime + durationMinutes <= limit
  THEN GapSlots(currentTime + 15, limit, dateRange, durationMinutes,
                IF currentTime >= dateRange.start
                   /\ currentTime + durationMinutes <= dateRange.end
                THEN Append(slots, currentTime) ELSE slots)
  ELSE [currentTime |-> currentTime, slots |-> slots]

\* the for loop over the sorted busy periods, then the loop after the last
RECURSIVE FreeWalk(_, _, _, _, _, _)
FreeWalk(allBusyPeriods, i, currentTime, dateRange, durationMinutes, slots) ==
  IF i > Len(allBusyPeriods)
  THEN GapSlots(currentTime, dateRange.end, dateRange, durationMinutes, slots).slots
  ELSE
    LET gap == GapSlots(currentTime, allBusyPeriods[i].start, dateRange,
                        durationMinutes, slots)
    IN  FreeWalk(allBusyPeriods, i + 1, Max(gap.currentTime, allBusyPeriods[i].end),
                 dateRange, durationMinutes, gap.slots)

\* CalendarProcessor.findFreeTimeSlots
findFreeTimeSlots(cals, dateRange, durationMinutes) ==
  LET allBusyPeriods == SortByStart(detectConflicts(cals).busyPeriods)
  IN  FreeWalk(allBusyPeriods, 1, dateRange.start, dateRange, durationMinutes, <<>>)

\* events between 0:00 and 0:45 of the first day, on a grid that the
\* 15-minute candidates hit and miss
FreeInstants == {0, 15, 20, 45}
FreeSpans == {sp \in [start : FreeInstants, end : FreeInstants] : sp.start < sp.end}
FreeRanges == {[start |-> 0, end |-> 60], [start |-> 15, end |-> 45], [start |-> 0, end |-> 45]}
FreeDurations == {0, 15, 20, 30}

FreeInit ==
  /\ \E first \in SeqsUpTo(FreeSpans, 2), second \in SeqsUpTo(FreeSpans, 1),
        dateRange \in FreeRanges, durationMinutes \in FreeDurations :
       freeArgs = [calendars |-> <<[participantId |-> 1,
                                    events |-> WithIds(AsEvents(first, 0))],
                                   [participantId |-> 2,
                                    events |-> WithIds(AsEvents(second, 0))]>>,
                   dateRange |-> dateRange,
                   durationMinutes |-> durationMinutes]
  /\ freePc = "ready"
  /\ freeSlots = <<>>
  /\ ProcIdle
  /\ SchedIdle
  /\ ExpandIdle
  /\ NormIdle
  /\ ParseIdle
  /\ AltIdle
  /\ DataIdle
  /\ SessionIdle

FindFreeTimeSlots ==
  /\ freePc = "ready"
  /\ freeSlots' = findFreeTimeSlots(freeArgs.calendars, freeArgs.dateRange,
                                    freeArgs.durationMinutes)
  /\ freePc' = "done"
  /\ UNCHANGED freeArgs
  /\ UNCHANGED <<procVars, schedVars, expandVars, normVars, parseVars>>
  /\ UNCHANGED <<altVars, dataVars, sessionVars>>

FreeNext == FindFreeTimeSlots

SpecFree == FreeInit /\ [][FreeNext]_vars

\* the busy periods of all participants of the call
FreeBusy == detectConflicts(freeArgs.calendars).busyPeriods

WorstConflicts ==
  LET counts == {Len(result.availableSlots[i].conflicts) : i \in 1..Len(result.availableSlots)}
  IN  IF counts = {} THEN 0 ELSE CHOOSE c \in counts : \A d \in counts : d <= c

\* C22: fewerParticipants holds only slots with strictly fewer conflicts than
\* the worst slot of the result, and at least one whenever the result has a
\* slot with at least one conflict and fewer conflicts than the worst slot.
C22_FewerThanWorstOffered ==
  altPc = "done" =>
    /\ \A i \in 1..Len(alternatives.fewerParticipants) :
         Len(alternatives.fewerParticipants[i].conflicts) < WorstConflicts
    /\ (\E i \in 1..Len(result.availableSlots) :
          /\ Len(result.availableSlots[i].conflicts) > 0
          /\ Len(result.availableSlots[i].conflicts) < WorstConflicts)
         => alternatives.fewerParticipants # <<>>

\* C22, first half: fewerParticipants holds only slots with at least one
\* conflict and strictly fewer conflicts than the worst slot of the result.
C22_OnlyFewerThanWorst ==
  altPc = "done" =>
    \A i \in 1..Len(alternatives.fewerParticipants) :
      /\ Len(alternatives.fewerParticipants[i].conflicts) > 0
      /\ Len(alternatives.fewerParticipants[i].conflicts) < WorstConflicts

\* ---------------------------------------------------- normalizeCalendarData
\* at most MaxItems items in a Google Calendar payload
MaxItems == 2

\* CalendarProcessor.mapGoogleStatus
mapGoogleStatus(status) ==
  IF status \in {"tentative", "cancelled"} THEN status ELSE "confirmed"

\* CalendarProcessor.convertGoogleEvent: <<>> for null, else <<event>>.  An
\* item is [id, hasStart, start, timeZone, hasEnd, end, status]; start and
\* end are what new Date(dateTime) gives, Invalid Date for a text that is no
\* date
convertGoogleEvent(item) ==
  IF item.id = <<>> \/ ~item.hasStart THEN <<>>
  ELSE <<[id |-> item.id,
          start |-> item.start,
          end |-> IF item.hasEnd THEN item.end ELSE plusOneHour(item.start),
          timezone |-> IF item.timeZone = "" THEN "UTC" ELSE item.timeZone,
          status |-> mapGoogleStatus(item.status),
          recurrence |-> NoRule]>>

\* CalendarProcessor.normalizeGoogleCalendarData: the events of the calendar
RECURSIVE GoogleEventsFrom(_, _)
GoogleEventsFrom(items, i) ==
  IF i > Len(items) THEN <<>>
  ELSE convertGoogleEvent(items[i]) \o GoogleEventsFrom(items, i + 1)

\* Date comparison a >= b: false when either is Invalid Date
dateNotBefore(a, b) == a.valid /\ b.valid /\ a.t >= b.t

\* the body of the loop of validateAndCleanEvents for one event: whether it
\* is kept, and the warnings and errors it adds (a Date object is truthy
\* also when it is Invalid Date)
validateEvent(event) ==
  IF event.status = "cancelled"
  THEN [keep |-> FALSE, warnings |-> <<[kind |-> "cancelled", id |-> event.id]>>,
        errors |-> <<>>]
  ELSE IF event.id = <<>>
  THEN [keep |-> FALSE, warnings |-> <<>>,
        errors |-> <<[kind |-> "missing", id |-> event.id]>>]
  ELSE IF dateNotBefore(event.start, event.end)
  THEN [keep |-> FALSE, warnings |-> <<>>,
        errors |-> <<[kind |-> "range", id |-> event.id]>>]
  ELSE [keep |-> TRUE,
        warnings |-> IF event.start.valid /\ event.end.valid
                        /\ getTime(event.end.t) - getTime(event.start.t)
                             > 7 * 24 * 60 * 60 * 1000
                     THEN <<[kind |-> "long", id |-> event.id]>> ELSE <<>>,
        errors |-> <<>>]

\* CalendarProcessor.validateAndCleanEvents
RECURSIVE ValidateFrom(_, _, _)
ValidateFrom(events, i, acc) ==
  IF i > Len(events) THEN acc
  ELSE LET v == validateEvent(events[i])
       IN  ValidateFrom(events, i + 1,
             [cleanedEvents |-> IF v.keep THEN Append(acc.cleanedEvents, events[i])
                                ELSE acc.cleanedEvents,
              validationWarnings |-> acc.validationWarnings \o v.warnings,
              validationErrors |-> acc.validationErrors \o v.errors])

validateAndCleanEvents(events) ==
  ValidateFrom(events, 1,
    [cleanedEvents |-> <<>>, validationWarnings |-> <<>>, validationErrors |-> <<>>])

\* TimezoneUtils.toUTC on a Date: formatToParts throws a RangeError for
\* Invalid Date, the catch block returns a copy
toUTCDate(date, timezone, hour24) ==
  IF date.valid THEN ValidDate(toUTC(date.t, timezone, hour24)) ELSE InvalidDate

\* CalendarProcessor.normalizeTimezones on events whose start and end are Dates
normalizeEventTimezones(events, hour24) ==
  [i \in 1..Len(events) |->
     [events[i] EXCEPT
        !.start = toUTCDate(events[i].start, events[i].timezone, hour24),
        !.end = toUTCDate(events[i].end, events[i].timezone, hour24),
        !.timezone = "UTC"]]

\* the ParticipantCalendar the source-specific step gives: its events, or a
\* throw (CalendarProcessingError wrapping the parser's error)
sourceEvents(input) ==
  IF input.source = "google" THEN Returns(GoogleEventsFrom(input.raw, 1))
  ELSE parseICalContent(input.raw)

\* CalendarProcessor.normalizeCalendarData: the NormalizationResult built from
\* what validateAndCleanEvents returned
normalizationResult(cleaned, hour24) ==
  Returns([events |-> normalizeEventTimezones(cleaned.cleanedEvents, hour24),
           warnings |-> cleaned.validationWarnings,
           errors |-> cleaned.validationErrors])

\* CalendarProcessor.normalizeCalendarData after the source-specific step
normalizeSource(source, hour24) ==
  IF source.kind = "throw" THEN Throws
  ELSE normalizationResult(validateAndCleanEvents(source.value), hour24)

\* CalendarProcessor.normalizeCalendarData
normalizeCalendarData(input) == normalizeSource(sourceEvents(input), input.hour24)

\* Google Calendar items: a one-hour event at 12:00 of the first day or at
\* 00:00 UTC of the second, in UTC or New York, confirmed or cancelled; events
\* that end before or when they start, that last 7 or 8 days, that have no
\* end, no start or no id, and events whose start or end text is no date
GoogleItem(start, end, timeZone, status) ==
  [id |-> <<"g">>, hasStart |-> TRUE, start |-> start, timeZone |-> timeZone,
   hasEnd |-> TRUE, end |-> end, status |-> status]
GoogleItems ==
  {GoogleItem(ValidDate(st), ValidDate(st + 60), tz, status) :
      st \in {720, 1440}, tz \in {"UTC", "America/New_York"},
      status \in {"confirmed", "cancelled"}}
  \cup {GoogleItem(ValidDate(780), ValidDate(en), "UTC", status) :
          en \in {720, 780}, status \in {"confirmed", "cancelled"}}
  \cup {GoogleItem(ValidDate(720), ValidDate(720 + days * MinutesPerDay), "", "confirmed") :
          days \in {7, 8}}
  \cup {GoogleItem(InvalidDate, ValidDate(780), "UTC", "confirmed"),
        GoogleItem(ValidDate(720), InvalidDate, "UTC", "tentative"),
        [GoogleItem(ValidDate(720), InvalidDate, "UTC", "confirmed") EXCEPT !.hasEnd = FALSE],
        [GoogleItem(ValidDate(720), ValidDate(780), "UTC", "confirmed") EXCEPT !.hasStart = FALSE],
        [GoogleItem(ValidDate(720), ValidDate(780), "UTC", "confirmed") EXCEPT !.id = <<>>]}

\* the items of a payload carry the letter of their position as id
WithItemIds(items) ==
  [i \in 1..Len(items) |-> IF items[i].id = <<>> THEN items[i]
                           ELSE [items[i] EXCEPT !.id = UidChars(i)]]

\* iCal contents handed to normalizeCalendarData: one event in UTC, in New
\* York or with a garbled start, recurring or not; or no container marker
DataContents ==
  {ContentLines(TRUE, FALSE, BlockLines([uid |-> "ok", dtstart |-> d, dtend |-> "none"], 1, rules)) :
      d \in {"utc", "tzid", "garbled"},
      rules \in {<<>>, <<<<Part("FREQ", "DAILY"), Part("COUNT", <<"2">>)>>>>}}
  \cup {ContentLines(FALSE, FALSE, <<>>)}

DataInit ==
  /\ \E hour24 \in BOOLEAN :
       \/ \E items \in SeqsUpTo(GoogleItems, MaxItems) :
            dataInput = [source |-> "google", raw |-> WithItemIds(items), hour24 |-> hour24]
       \/ \E lines \in DataContents :
            dataInput = [source |-> "ical", raw |-> lines, hour24 |-> hour24]
  /\ dataPc = "ready"
  /\ dataResult = <<>>
  /\ dataDetection = <<>>
  /\ ProcIdle
  /\ SchedIdle
  /\ ExpandIdle
  /\ NormIdle
  /\ ParseIdle
  /\ FreeIdle
  /\ AltIdle
  /\ SessionIdle

\* normalizeCalendarData returns the NormalizationResult
NormalizeCalendarData ==
  /\ dataPc = "ready"
  /\ \E returned \in {normalizeCalendarData(dataInput)} :
       /\ returned.kind = "return"
       /\ dataResult' = returned.value
  /\ dataPc' = "normalized"
  /\ UNCHANGED <<dataInput, dataDetection>>
  /\ UNCHANGED <<procVars, schedVars, expandVars, normVars, parseVars>>
  /\ UNCHANGED <<freeVars, altVars, sessionVars>>

\* normalizeCalendarData throws CalendarProcessingError
NormalizeCalendarDataThrows ==
  /\ dataPc = "ready"
  /\ normalizeCalendarData(dataInput).kind = "throw"
  /\ dataPc' = "failed"
  /\ UNCHANGED <<dataInput, dataResult, dataDetection>>
  /\ UNCHANGED <<procVars, schedVars, expandVars, normVars, parseVars>>
  /\ UNCHANGED <<freeVars, altVars, sessionVars>>

\* the RRule the parser built, with its dates as instants
RRuleOf(rule) ==
  IF ~rule.present THEN NoRecurrence
  ELSE [present |-> TRUE,
        freq |-> IF rule.freq = Frequency["DAILY"] THEN "DAILY" ELSE "WEEKLY",
        interval |-> rule.interval,
        count |-> IF rule.count = <<>> THEN NoLimit ELSE rule.count[1],
        until |-> IF rule.until = <<>> THEN NoLimit ELSE rule.until[1].t,
        dtstart |-> rule.dtstart.t]

\* an event whose dates are valid, with its dates as instants
WithInstants(event) ==
  [id |-> event.id, start |-> event.start.t, end |-> event.end.t,
   timezone |-> event.timezone, status |-> event.status,
   recurrence |-> RRuleOf(event.recurrence)]

\* CalendarProcessor.expandRecurringEvents with a dateRange: the occurrences of
\* each recurring event, every other event as it is
RECURSIVE ExpandedFrom(_, _, _)
ExpandedFrom(events, i, dateRange) ==
  IF i > Len(events) THEN <<>>
  ELSE (IF events[i].recurrence.present
        THEN expandSingleEvent(events[i], dateRange, DefaultMaxOccurrences)
        ELSE <<events[i]>>)
       \o ExpandedFrom(events, i + 1, dateRange)

\* CalendarProcessor.detectConflicts(calendars, dateRange) on one calendar:
\* the expanded events it works on, and what it returns
detectConflictsIn(events, dateRange) ==
  LET expanded == ExpandedFrom(events, 1, dateRange)
      r == DetectLoop(<<[participantId |-> 1, events |-> expanded]>>, 1,
                      [conflicts |-> <<>>, busyPeriods |-> <<>>])
  IN  [events |-> expanded,
       hasConflicts |-> Len(r.conflicts) > 0,
       conflicts |-> r.conflicts,
       busyPeriods |-> r.busyPeriods]

\* the first week of December 2023
DataRange == [start |-> 0, end |-> 7 * MinutesPerDay]

\* detectConflicts on the calendar normalizeCalendarData returned, when all
\* its dates are valid
DetectNormalized ==
  /\ dataPc = "normalized"
  /\ \A i \in 1..Len(dataResult.events) :
       dataResult.events[i].start.valid /\ dataResult.events[i].end.valid
  /\ dataDetection' =
       detectConflictsIn([i \in 1..Len(dataResult.events) |->
                            WithInstants(dataResult.events[i])], DataRange)
  /\ dataPc' = "detected"
  /\ UNCHANGED <<dataInput, dataResult>>
  /\ UNCHANGED <<procVars, schedVars, expandVars, normVars, parseVars>>
  /\ UNCHANGED <<freeVars, altVars, sessionVars>>

DataNext == NormalizeCalendarData \/ NormalizeCalendarDataThrows \/ DetectNormalized

SpecData == DataInit /\ [][DataNext]_vars

\* -------------------------------------------- claims on normalizeCalendarData
\* the events the source-specific step handed to validateAndCleanEvents
SourceEvents == sourceEvents(dataInput).value
CountOf(seq, Test(_)) == Len(SelectSeq(seq, Test))
Normalized == dataPc \in {"normalized", "detected"}

\* C23: every event of the calendar normalizeCalendarData returns is not
\* cancelled, has an id, a start and an end with start < end; each cancelled
\* event dropped adds one warning and no error, each event dropped for a
\* missing field or start >= end adds one error, and an event longer than 7
\* days is kept with a warning.
C23_ReturnedEventsWellFormed ==
  Normalized =>
    /\ \A i \in 1..Len(dataResult.events) :
         LET e == dataResult.events[i]
         IN  /\ e.status # "cancelled"
             /\ e.id # <<>>
             /\ e.start.valid /\ e.end.valid
             /\ e.start.t < e.end.t
    /\ CountOf(dataResult.warnings, LAMBDA w : w.kind = "cancelled")
         = CountOf(SourceEvents, LAMBDA e : e.status = "cancelled")
    /\ Len(dataResult.errors)
         = CountOf(SourceEvents, LAMBDA e : e.status # "cancelled"
                                            /\ (e.id = <<>> \/ dateNotBefore(e.start, e.end)))
    /\ \A i \in 1..Len(SourceEvents) :
         LET e == SourceEvents[i]
         IN  (/\ e.status # "cancelled"
              /\ e.start.valid /\ e.end.valid
              /\ e.end.t - e.start.t > 7 * MinutesPerDay)
               => /\ \E k \in 1..Len(dataResult.events) : dataResult.events[k].id = e.id
                  /\ \E k \in 1..Len(dataResult.warnings) :
                       dataResult.warnings[k] = [kind |-> "long", id |-> e.id]

\* C23, restricted: the same when every date of the source events is a valid
\* date and the runtime renders the hour of midnight as 00.
C23_WellFormedForValidDates ==
  (/\ ~dataInput.hour24
   /\ sourceEvents(dataInput).kind = "return"
   /\ \A i \in 1..Len(SourceEvents) : SourceEvents[i].start.valid /\ SourceEvents[i].end.valid)
    => C23_ReturnedEventsWellFormed

\* ------------------------------------- claims on detection after normalization
\* the occurrences detectConflicts generated from the returned event parent
OccurrencesOf(parent) ==
  SelectSeq(dataDetection.events,
            LAMBDA o : /\ Len(o.id) > Len(parent.id)
                       /\ SubSeq(o.id, 1, Len(parent.id) + 1) = parent.id \o <<"_">>)

\* the zone the source declared for the event with this id
DeclaredZones(id) ==
  {SourceEvents[j].timezone : j \in {j \in 1..Len(SourceEvents) : SourceEvents[j].id = id}}

\* the occurrences of the recurring event parent carry the marker "UTC" and
\* lie whole periods of the rule after the normalized start of parent
ShiftedLikeParent(parent) ==
  \A k \in 1..Len(OccurrencesOf(parent)) :
    LET o == OccurrencesOf(parent)[k]
    IN  /\ o.timezone = "UTC"
        /\ o.start >= parent.start.t
        /\ (o.start - parent.start.t) % FreqPeriod(o.recurrence.freq) = 0
        /\ o.end - o.start = parent.end.t - parent.start.t

\* C27: after normalizeCalendarData, every occurrence detectConflicts expands
\* from a recurring event carries the marker "UTC" and is shifted by the same
\* zone conversion as its parent, also when the parent was declared in a zone
\* other than UTC.
C27_OccurrencesShiftedLikeParent ==
  dataPc = "detected" =>
    \A i \in 1..Len(dataResult.events) :
      dataResult.events[i].recurrence.present => ShiftedLikeParent(dataResult.events[i])

\* C27, restricted: the same for the recurring events declared in UTC.
C27_ShiftedLikeParentDeclaredInUTC ==
  dataPc = "detected" =>
    \A i \in 1..Len(dataResult.events) :
      (/\ dataResult.events[i].recurrence.present
       /\ DeclaredZones(dataResult.events[i].id) = {"UTC"})
        => ShiftedLikeParent(dataResult.events[i])

\* ------------------------------------------------ claims on the slot scores
ConflictedSlots == {i \in 1..Len(result.availableSlots) : Len(result.availableSlots[i].conflicts) > 0}
FreeSlots == {i \in 1..Len(result.availableSlots) : Len(result.availableSlots[i].conflicts) = 0}

\* C24: in the result of scheduleOptimalMeeting every slot with a conflict has
\* a score strictly lower than every slot without conflict, for any number of
\* participants and any bonuses (the business-hours window has two different
\* ends, so that the scores are numbers).
C24_ConflictedBelowConflictFree ==
  (schedPc = "returned" /\ WindowLength # 0) =>
    \A i \in ConflictedSlots : \A j \in FreeSlots :
      NumLess(result.availableSlots[i].score, result.availableSlots[j].score)

\* C24, restricted: the same for requests of at most three participants whose
\* business-hours window has two different ends.
C24_ConflictedBelowFreeUpToThree ==
  (schedPc = "returned" /\ Len(participants) <= 3 /\ WindowLength # 0) =>
    \A i \in ConflictedSlots : \A j \in FreeSlots :
      NumLess(result.availableSlots[i].score, result.availableSlots[j].score)

\* a returned request of two participants without busy periods, for one hour
\* between 09:00 and 17:00 on one weekday
QuietOfficeDay ==
  /\ schedPc = "returned"
  /\ Len(participants) = 2
  /\ \A k \in 1..Len(periodsReturned) : periodsReturned[k] = <<>>
  /\ preferences.duration = 60
  /\ preferences.timeRangeStart = T0900
  /\ preferences.timeRangeEnd = T1700
  /\ startOfDay(searchRange.start) = startOfDay(searchRange.end)
  /\ ~isWeekend(searchRange.start)

SlotAt(t) == {i \in 1..Len(result.availableSlots) : result.availableSlots[i].start = t}
DistanceFrom1300(i) == Abs(getHours(result.availableSlots[i].start) * 60
                           + getMinutes(result.availableSlots[i].start) - 13 * 60)

\* no slot of the quiet day has a conflict, and a slot farther from 13:00 never
\* scores higher than one nearer to it
QuietDayScoresFallFrom1300 ==
  /\ \A i \in 1..Len(result.availableSlots) : result.availableSlots[i].conflicts = <<>>
  /\ \A i, j \in 1..Len(result.availableSlots) :
       DistanceFrom1300(i) <= DistanceFrom1300(j)
         => ~NumLess(result.availableSlots[i].score, result.availableSlots[j].score)

\* C25: with no busy periods, two participants, a window 09:00-17:00, duration
\* 60 and one weekday, every slot is free of conflicts, the slot at 13:00
\* scores strictly higher than the slots at 09:00 and at 16:00, and the score
\* never increases with the distance from 13:00.
C25_MiddayScoresHighest ==
  QuietOfficeDay =>
    /\ QuietDayScoresFallFrom1300
    /\ SlotAt(13 * 60) # {} /\ SlotAt(9 * 60) # {} /\ SlotAt(16 * 60) # {}
    /\ \A m \in SlotAt(13 * 60) : \A e \in SlotAt(9 * 60) \cup SlotAt(16 * 60) :
         NumLess(result.availableSlots[e].score, result.availableSlots[m].score)

\* C25, weakened: on the quiet day no slot has a conflict, the score never
\* increases with the distance from 13:00, and every slot scores 100.
C25_QuietDayAllScoresEqual ==
  QuietOfficeDay =>
    /\ QuietDayScoresFallFrom1300
    /\ SlotAt(13 * 60) # {} /\ SlotAt(9 * 60) # {} /\ SlotAt(16 * 60) # {}
    /\ \A i \in 1..Len(result.availableSlots) : result.availableSlots[i].score = Num(100)

\* C29: every slot of availableSlots lies inside the search range:
\* slot.start >= searchRange.start and slot.end <= searchRange.end, also on
\* the first and the last day and when the range ends on a midnight.
C29_SlotsInsideSearchRange ==
  schedPc = "returned" =>
    \A i \in 1..Len(result.availableSlots) :
      /\ result.availableSlots[i].start >= searchRange.start
      /\ result.availableSlots[i].end <= searchRange.end

\* C29, weakened: every slot starts on a day of the walk, between the start of
\* the day of searchRange.start and the end of the day of searchRange.end.
C29_SlotsStartOnDaysOfRange ==
  schedPc = "returned" =>
    \A i \in 1..Len(result.availableSlots) :
      /\ result.availableSlots[i].start >= startOfDay(searchRange.start)
      /\ result.availableSlots[i].start <= endOfDay(searchRange.end)

\* --------------------------------------- claims on expandRecurringEvents
Listed == expandPc = "listed"

SortedByStart(events) ==
  \A k \in 1..(Len(events) - 1) : events[k].start <= events[k + 1].start

NoTextBlock == [uid |-> <<>>, dtstart |-> <<>>, dtend |-> <<>>, nested |-> FALSE]
RECURSIVE TextBlocksFrom(_, _, _, _)
TextBlocksFrom(i, open, block, blocks) ==
  IF i > Len(icalLines) THEN blocks
  ELSE
    LET line == icalLines[i]
        inEvent == open # <<>> /\ open[Len(open)] = "VEVENT"
    IN  IF line.name = "BEGIN"
        THEN TextBlocksFrom(i + 1, Append(open, line.value),
               IF line.value = "VEVENT" THEN NoTextBlock
               ELSE [block EXCEPT !.nested = "VEVENT" \in Range(open)],
               blocks)
        ELSE IF line.name = "END"
        THEN TextBlocksFrom(i + 1,
               IF open = <<>> THEN open ELSE SubSeq(open, 1, Len(open) - 1),
               block,
               IF inEvent THEN Append(blocks, block) ELSE blocks)
        ELSE TextBlocksFrom(i + 1, open,
               IF ~inEvent THEN block
               ELSE IF line.name = "UID" THEN [block EXCEPT !.uid = Append(@, line.value)]
               ELSE IF line.name = "DTSTART"
                    THEN [block EXCEPT !.dtstart = Append(@, line.value)]
               ELSE IF line.name = "DTEND" THEN [block EXCEPT !.dtend = Append(@, line.value)]
               ELSE block,
               blocks)
TextBlocks == TextBlocksFrom(1, <<>>, NoTextBlock, <<>>)

\* a block of the text with an id and one start line holding a date
HasIdAndStart(b) ==
  /\ Len(b.uid) = 1 /\ b.uid[1] # <<>>
  /\ Len(b.dtstart) = 1 /\ IsDateText(b.dtstart[1])

EventsWithId(id) == {i \in 1..Len(parsed) : parsed[i].id = id}

\* C28: every BEGIN:VEVENT ... END:VEVENT block with a UID and a parseable
\* start yields exactly one event, also when the block holds a nested
\* component such as an alarm, or property lines behind the nested block.
C28_OneEventPerBlock ==
  parsePc = "returned" =>
    \A k \in 1..Len(TextBlocks) :
      HasIdAndStart(TextBlocks[k]) => Cardinality(EventsWithId(TextBlocks[k].uid[1])) = 1

\* C28, restricted: a block with a UID and a parseable start, whose end line,
\* if any, holds a date, yields exactly one event when no component is nested
\* in it, and no event when one is.
C28_OneEventPerBlockWithoutNesting ==
  parsePc = "returned" =>
    \A k \in 1..Len(TextBlocks) :
      (/\ HasIdAndStart(TextBlocks[k])
       /\ (\/ TextBlocks[k].dtend = <<>>
           \/ (Len(TextBlocks[k].dtend) = 1 /\ IsDateText(TextBlocks[k].dtend[1]))))
        => Cardinality(EventsWithId(TextBlocks[k].uid[1]))
             = IF TextBlocks[k].nested THEN 0 ELSE 1

\* ------------------------------------------------------- upload sessions
\* One session. A stored session is written <<participants>>, no session <<>>.
\* redisStore is the serialized copy under the session's key, memoryStore the
\* object the Map sessions holds under the session's id.
MaxAdds == 2
AddOps == 1..MaxAdds
ParticipantNames == <<"p1", "p2", "p3", "p4">>

\* an add operation before its call: the route starts it without awaiting it
NotStarted == [pc |-> "start", holds |-> "none", copy |-> <<>>, returned |-> "none"]

\* createUploadSession has stored the empty session, in Redis or, when Redis
\* is not configured or the write failed, in the Map
SessionInit ==
  /\ redisAvailable \in BOOLEAN
  /\ \/ redisAvailable /\ redisStore = <<<<>>>> /\ memoryStore = <<>>
     \/ redisStore = <<>> /\ memoryStore = <<<<>>>>
  /\ sessionOps = [op \in AddOps |-> NotStarted]
  /\ added = {}
  /\ lastRead = <<>>
  /\ ProcIdle
  /\ SchedIdle
  /\ ExpandIdle
  /\ NormIdle
  /\ ParseIdle
  /\ FreeIdle
  /\ AltIdle
  /\ DataIdle

\* getUploadSession: where the session comes from, "redis" (a fresh copy
\* parsed from the stored text), "memory" (the object of the Map) or "none"
sessionSource ==
  IF redisAvailable /\ redisStore # <<>> THEN "redis"
  ELSE IF memoryStore # <<>> THEN "memory"
  ELSE "none"

\* getUploadSession: the participants of the session it returns
sessionRead == IF sessionSource = "redis" THEN redisStore[1] ELSE memoryStore[1]

\* addParticipantToSession up to the end of await getUploadSession
AddParticipantReads(op) ==
  /\ sessionOps[op].pc = "start"
  /\ sessionSource # "none"
  /\ sessionOps' = [sessionOps EXCEPT
       ![op] = [pc |-> "read",
                holds |-> IF sessionSource = "redis" THEN "copy" ELSE "mapped",
                copy |-> IF sessionSource = "redis" THEN sessionRead ELSE <<>>,
                returned |-> "none"]]
  /\ UNCHANGED <<redisAvailable, redisStore, memoryStore, added, lastRead>>
  /\ UNCHANGED <<procVars, schedVars, expandVars, normVars, parseVars>>
  /\ UNCHANGED <<freeVars, altVars, dataVars>>

\* the operations that hold the object of the Map keep it when the Map gets
\* another object under the id
Detached(ops) ==
  [o \in AddOps |->
     IF ops[o].pc = "read" /\ ops[o].holds = "mapped"
     THEN [ops[o] EXCEPT !.holds = "copy", !.copy = memoryStore[1]]
     ELSE ops[o]]

\* addParticipantToSession from the push to the return: the write to Redis
\* succeeds (stored) or not
AddParticipantWrites(op, stored) ==
  LET held == IF sessionOps[op].holds = "mapped" THEN memoryStore[1]
              ELSE sessionOps[op].copy
      session == Append(held, ParticipantNames[op])
      finished == [sessionOps[op] EXCEPT !.pc = "done", !.returned = "session"]
  IN  /\ sessionOps[op].pc = "read"
      /\ stored => redisAvailable
      /\ IF redisAvailable /\ stored
         THEN /\ redisStore' = <<session>>
              /\ memoryStore' = IF sessionOps[op].holds = "mapped" THEN <<session>>
                                ELSE memoryStore
              /\ sessionOps' = [sessionOps EXCEPT ![op] = finished]
         ELSE /\ memoryStore' = <<session>>
              /\ redisStore' = redisStore
              /\ sessionOps' =
                   IF sessionOps[op].holds = "mapped"
                   THEN [sessionOps EXCEPT ![op] = finished]
                   ELSE [Detached(sessionOps) EXCEPT ![op] = finished]
      /\ added' = added \cup {ParticipantNames[op]}
      /\ UNCHANGED <<redisAvailable, lastRead>>
      /\ UNCHANGED <<procVars, schedVars, expandVars, normVars, parseVars>>
      /\ UNCHANGED <<freeVars, altVars, dataVars>>

\* a later getUploadSession: what it returns, and the participants whose add
\* had returned a session before
GetUploadSession ==
  /\ sessionSource # "none"
  /\ \E op \in AddOps : sessionOps[op].pc = "done"
  /\ lastRead' = <<[participants |-> sessionRead, addedBefore |-> added]>>
  /\ UNCHANGED <<redisAvailable, redisStore, memoryStore, sessionOps, added>>
  /\ UNCHANGED <<procVars, schedVars, expandVars, normVars, parseVars>>
  /\ UNCHANGED <<freeVars, altVars, dataVars>>

SessionNext ==
  \/ \E op \in AddOps : AddParticipantReads(op)
  \/ \E op \in AddOps, stored \in BOOLEAN : AddParticipantWrites(op, stored)
  \/ GetUploadSession

SpecSession == SessionInit /\ [][SessionNext]_vars

\* C30: once addParticipantToSession has returned a session for p, every
\* later getUploadSession returns a session whose participants include p,
\* also when two adds interleave and when a write to Redis fails.
C30_NoLostUpdate ==
  lastRead # <<>> =>
    lastRead[1].addedBefore \subseteq Range(lastRead[1].participants)

\* C30, restricted: the same when Redis is not configured, so that every
\* operation works on the one object of the Map.
C30_NoLostUpdateInMemory ==
  ~redisAvailable => C30_NoLostUpdate

====
